---- MODULE Spec2Model ----
(***************************************************************************)
(* Label3D -> COCO conversion (demos/l3d2coco.py, l3d_to_coco), modelled   *)
(* as a state machine: the loaded tensors, the layout computation, the     *)
(* frame / camera / animal traversal, the keypoint decoding and the        *)
(* bounding-box construction.  The calibration export                      *)
(* (demos/multical2label3d.py) follows: its helper functions, called on    *)
(* their own (SpecHelpers), and its main (SpecMain).  Each specification   *)
(* runs one program and leaves the variables of the others at rest.        *)
(*                                                                         *)
(* Floats: every coordinate used is a multiple of 0.5, so a float is kept  *)
(* as the integer 2*value ("halves") next to a NaN flag.  Python's         *)
(* round() (round half to even) is PyRound below.                          *)
(***************************************************************************)
EXTENDS Integers, Sequences, FiniteSets, TLC

\* ------------------------------------------------------------------ bounds
MaxCells == 3           \* markers * cameras * frames of the loaded tensor
MaxMarkers == 3         \* size of the marker axis
MaxCameras == 2         \* size of the camera axis
MaxFrames == 2          \* size of the frame axis
MaxAnimals == 2         \* nAnimalsInSession
MaxBaseKeypoints == 3   \* joints of the base skeleton
MaxPoseEntries == 2     \* keys of a camera_poses table
MaxCoeffs == 6          \* length of a distortion coefficient list
MaxEdges == 2           \* rows of joints_idx
MaxEntries == 2         \* instance entries in the pose JSON files
MaxJoints == 2          \* joint names of the skeleton of the poses
MaxImages == 2          \* entries of the images list of the COCO file
MaxVideoFrames == 2     \* frames of a video

\* ------------------------------------------------------------------ floats
NaN == [nan |-> TRUE, half |-> 0]
Float(h) == [nan |-> FALSE, half |-> h]
IsNaN(c) == c.nan
ToFloat(n) == 2 * n

\* int(round(float(v))): round half to even, v given in halves
PyRound(h) ==
  IF h % 2 = 0 THEN h \div 2
  ELSE LET k == (h - 1) \div 2 IN IF k % 2 = 0 THEN k ELSE k + 1

Max2(a, b) == IF a >= b THEN a ELSE b
Min2(a, b) == IF a <= b THEN a ELSE b

RECURSIVE SeqMin(_)
SeqMin(s) == IF Len(s) = 1 THEN s[1] ELSE Min2(s[1], SeqMin(Tail(s)))
RECURSIVE SeqMax(_)
SeqMax(s) == IF Len(s) = 1 THEN s[1] ELSE Max2(s[1], SeqMax(Tail(s)))

\* ------------------------------------------------------------------ status
L3D_STATUS_UNLABELED == 0
L3D_STATUS_INITIALIZED == 1
L3D_STATUS_LABELED == 2
L3D_STATUS_INVISIBLE == 3

\* ------------------------------------------------------------------ inputs
\* One tensor cell: camPoints[m, c, :, f] and status[m, c, f].
Cell(xh, yh, s) == [x |-> xh, y |-> yh, s |-> s]
RawCells ==
  << Cell(Float(20),  Float(20),  L3D_STATUS_LABELED),       \* ( 10,   10)
     Cell(Float(-10), Float(40),  L3D_STATUS_LABELED),       \* ( -5,   20)
     Cell(NaN,        Float(21),  L3D_STATUS_INVISIBLE),     \* (NaN, 10.5)
     Cell(Float(40),  NaN,        L3D_STATUS_INITIALIZED),   \* ( 20,  NaN)
     Cell(Float(21),  Float(40),  L3D_STATUS_INVISIBLE),     \* (10.5,  20)
     Cell(Float(40),  Float(5),   L3D_STATUS_INITIALIZED),   \* ( 20,  2.5)
     Cell(Float(-1),  Float(20),  L3D_STATUS_UNLABELED),     \* (-0.5,  10)
     Cell(Float(20),  Float(-10), L3D_STATUS_INITIALIZED) >> \* ( 10,   -5)

\* imageSize rows are [height, width]
ImageSizes == << <<100, 100>>, <<20, 11>> >>
ImageSizeTables(C) ==
  { [c \in 0..(C - 1) |-> ImageSizes[((c + s) % 2) + 1]] : s \in 0..1 }

Shapes ==
  { sh \in (0..MaxMarkers) \X (0..MaxCameras) \X (0..MaxFrames) :
      sh[1] * sh[2] * sh[3] <= MaxCells }

Cells(sh) == (0..(sh[1] - 1)) \X (0..(sh[2] - 1)) \X (0..(sh[3] - 1))

\* The tensors of shape sh: the markers of view (camera 0, frame 0) take any
\* raw cells; view (c, f) holds the same markers advanced c + nCams * f
\* places through RawCells, so that no two views of a marker agree.
Tensors(sh) ==
  { [i \in Cells(sh) |->
       RawCells[((col[i[1]] + i[2] + sh[2] * i[3]) % Len(RawCells)) + 1]] :
    col \in [0..(sh[1] - 1) -> 0..(Len(RawCells) - 1)] }

VARIABLES
  pc,                       \* position in l3d_to_coco
  shape,                    \* <<nMarkers, nCams, nSessionFrames>>
  all_cam_points_2d,        \* [<<m, c, f>> -> <<x, y>>]
  status,                   \* [<<m, c, f>> -> 0..3]
  image_size_l3d,           \* [c -> <<height, width>>]
  frames_to_label,          \* [f -> original frame id]
  n_animals_in_session,
  num_base_keypoints,
  keypoints_per_animal,
  images, annotations,      \* coco_output["images"], coco_output["annotations"]
  image_id_counter, annotation_id_counter,
  frame_s_idx, cam_idx, animal_inst_idx,
  current_image_id, img_height, img_width,
  instance_kps_2d, instance_status_vals,
  coco_keypoints_flat, num_labeled_kps_for_instance, visible_xs, visible_ys,
  saved                     \* the COCO file was written

\* multical2label3d.py, one helper function called on its own
VARIABLES
  call,                     \* the function and its arguments
  returned                  \* <<>>, then << what it returned or raised >>

\* multical2label3d.py, main
VARIABLES
  mpc,                      \* position in main
  use_pkl,                  \* args.use_pkl
  json_data,                \* the loaded JSON file
  workspace,                \* the loaded PKL workspace
  detected_ref_cam,         \* NoCamera while None
  target_cameras, all_intrinsics, all_extrinsics,
  cam_pos,                  \* place of cam_name in target_cameras
  K_original, R_w_cam, T_w_cam,
  mat_files,                \* [camera name -> the mat_dict saved for it]
  processed_count,
  output_dir_exists

\* create_coco_skeleton.py, and the skeleton file read by l3d_to_coco
VARIABLES
  spc,                      \* position: the script, then l3d_to_coco
  joint_names,              \* the skeleton definition of the script
  joints_idx,               \*   rows of 1-based uint8 indices
  colors,                   \*   rows of RGB values
  skeleton_file,            \* what savemat wrote, NoFile while there is none
  base_skel_joint_names,    \* l3d_to_coco: the parsed joint names
  base_skel_edges,          \*   and the parsed edges
  categories                \* coco_output["categories"]

skeleton_vars ==
  << spc, joint_names, joints_idx, colors, skeleton_file,
     base_skel_joint_names, base_skel_edges, categories >>

\* prepare_label3d_poses.py, main
VARIABLES
  ppc,                          \* position in main
  skel_data,                    \* size of 'joint_names', -1 without the field
  kpt_score_threshold,          \* args.kpt_score_threshold, in tenths
  camera_json_data_map,         \* the instance entries, in reading order
  num_keypoints_per_instance,
  sorted_frame_ids, sorted_instance_ids,
  cam_points_data, status_data, \* [<<marker, camera, frame>> -> ...]
  entry_pos,                    \* place of the entry the loops are at
  mat_written                   \* the output .mat file was written

prepare_vars ==
  << ppc, skel_data, kpt_score_threshold, camera_json_data_map,
     num_keypoints_per_instance, sorted_frame_ids, sorted_instance_ids,
     cam_points_data, status_data, entry_pos, mat_written >>

\* extract_training_imgs.py, extract_frames
VARIABLES
  epc,                          \* position in extract_frames
  test_mode, frames_to_exclude,
  full_coco_data,               \* [images, annotations]
  video,                        \* the video file: "missing", "closed", "ok"
  output_files,                 \* file names present in output_image_dir
  images_to_process,
  image_pos,                    \* place of image_info in images_to_process
  extracted_count, failed_count, excluded_by_rule_count,
  processed_image_id_for_test,  \* << >> while None
  frame_reads,                  \* the frames asked of the video, in order
  log                           \* the line logged for each image, in order

extract_vars ==
  << epc, test_mode, frames_to_exclude, full_coco_data, video, output_files,
     images_to_process, image_pos, extracted_count, failed_count,
     excluded_by_rule_count, processed_image_id_for_test, frame_reads, log >>
demo_vars == << skeleton_vars, prepare_vars, extract_vars >>

helper_vars == << call, returned >>
main_vars ==
  << mpc, use_pkl, json_data, workspace, detected_ref_cam,
     target_cameras, all_intrinsics, all_extrinsics, cam_pos,
     K_original, R_w_cam, T_w_cam, mat_files, processed_count,
     output_dir_exists >>
multical_vars == << helper_vars, main_vars >>

l3d_vars ==
  << pc, shape, all_cam_points_2d, status, image_size_l3d, frames_to_label,
     n_animals_in_session, num_base_keypoints, keypoints_per_animal,
     images, annotations, image_id_counter, annotation_id_counter,
     frame_s_idx, cam_idx, animal_inst_idx,
     current_image_id, img_height, img_width,
     instance_kps_2d, instance_status_vals,
     coco_keypoints_flat, num_labeled_kps_for_instance, visible_xs, visible_ys,
     saved >>

vars == << l3d_vars, multical_vars, demo_vars >>

inputs ==
  << shape, all_cam_points_2d, status, image_size_l3d, frames_to_label,
     num_base_keypoints >>
locals ==
  << instance_kps_2d, instance_status_vals, coco_keypoints_flat,
     num_labeled_kps_for_instance, visible_xs, visible_ys >>

num_total_markers == shape[1]
num_cameras == shape[2]
num_session_frames == shape[3]

\* ------------------------------------------------------------------ at rest
\* None, for a camera name: names are sequences of parts, none is empty.
NoCamera == << >>
NoCall ==
  [fn |-> "none", pose_data |-> << >>, cam_name |-> NoCamera,
   ref_cam |-> NoCamera, dist_coeffs |-> [type |-> "none", values |-> << >>]]
NoJson ==
  [has_camera_poses |-> FALSE, camera_poses |-> << >>,
   has_cameras |-> FALSE, cameras |-> << >>]
NoWorkspace == [names |-> << >>, cameras |-> << >>, poses |-> << >>]

\* l3d2coco.py is not run.
L3dIdle ==
  /\ pc = "idle"
  /\ shape = << 0, 0, 0 >>
  /\ all_cam_points_2d = << >> /\ status = << >>
  /\ image_size_l3d = << >> /\ frames_to_label = << >>
  /\ n_animals_in_session = 0 /\ num_base_keypoints = 0
  /\ keypoints_per_animal = 0
  /\ images = << >> /\ annotations = << >>
  /\ image_id_counter = 0 /\ annotation_id_counter = 0
  /\ frame_s_idx = 0 /\ cam_idx = 0 /\ animal_inst_idx = 0
  /\ current_image_id = 0 /\ img_height = 0 /\ img_width = 0
  /\ instance_kps_2d = << >> /\ instance_status_vals = << >>
  /\ coco_keypoints_flat = << >> /\ num_labeled_kps_for_instance = 0
  /\ visible_xs = << >> /\ visible_ys = << >>
  /\ saved = FALSE

\* No helper of multical2label3d.py is called.
HelpersIdle == call = NoCall /\ returned = << >>

\* main of multical2label3d.py is not run.
MainIdle ==
  /\ mpc = "idle"
  /\ use_pkl = FALSE
  /\ json_data = NoJson /\ workspace = NoWorkspace
  /\ detected_ref_cam = NoCamera
  /\ target_cameras = << >>
  /\ all_intrinsics = << >> /\ all_extrinsics = << >>
  /\ cam_pos = 0
  /\ K_original = << >> /\ R_w_cam = << >> /\ T_w_cam = << >>
  /\ mat_files = << >>
  /\ processed_count = 0
  /\ output_dir_exists = FALSE

\* No skeleton is defined, saved or read.
NoFile == [exists |-> FALSE, joint_names |-> << >>, joints_idx |-> << >>,
           color |-> << >>]
SkeletonIdle ==
  /\ spc = "idle"
  /\ joint_names = << >> /\ joints_idx = << >> /\ colors = << >>
  /\ skeleton_file = NoFile
  /\ base_skel_joint_names = << >> /\ base_skel_edges = << >>
  /\ categories = << >>

\* main of prepare_label3d_poses.py is not run.
PrepareIdle ==
  /\ ppc = "idle"
  /\ skel_data = 0 /\ kpt_score_threshold = 0
  /\ camera_json_data_map = << >>
  /\ num_keypoints_per_instance = 0
  /\ sorted_frame_ids = << >> /\ sorted_instance_ids = << >>
  /\ cam_points_data = << >> /\ status_data = << >>
  /\ entry_pos = 0
  /\ mat_written = FALSE

\* extract_frames is not called.
ExtractIdle ==
  /\ epc = "idle"
  /\ test_mode = FALSE /\ frames_to_exclude = {}
  /\ full_coco_data = [images |-> << >>, annotations |-> << >>]
  /\ video = "missing" /\ output_files = {}
  /\ images_to_process = << >> /\ image_pos = 0
  /\ extracted_count = 0 /\ failed_count = 0 /\ excluded_by_rule_count = 0
  /\ processed_image_id_for_test = << >>
  /\ frame_reads = << >> /\ log = << >>

\* None of the other demo scripts is run.
DemosIdle == SkeletonIdle /\ PrepareIdle /\ ExtractIdle

\* State after the two .mat files are loaded and unpacked.
Init ==
  /\ HelpersIdle /\ MainIdle /\ DemosIdle
  /\ pc = "layout"
  /\ shape \in Shapes
  /\ \E t \in Tensors(shape) :
       /\ all_cam_points_2d = [i \in Cells(shape) |-> <<t[i].x, t[i].y>>]
       /\ status = [i \in Cells(shape) |-> t[i].s]
  /\ image_size_l3d \in ImageSizeTables(shape[2])
  /\ frames_to_label = [f \in 0..(shape[3] - 1) |-> f + 1]
  /\ n_animals_in_session \in 0..MaxAnimals
  /\ num_base_keypoints \in 0..MaxBaseKeypoints
  /\ keypoints_per_animal = 0
  /\ images = <<>> /\ annotations = <<>>
  /\ image_id_counter = 0 /\ annotation_id_counter = 0
  /\ frame_s_idx = 0 /\ cam_idx = 0 /\ animal_inst_idx = 0
  /\ current_image_id = 0 /\ img_height = 0 /\ img_width = 0
  /\ instance_kps_2d = <<>> /\ instance_status_vals = <<>>
  /\ coco_keypoints_flat = <<>> /\ num_labeled_kps_for_instance = 0
  /\ visible_xs = <<>> /\ visible_ys = <<>>
  /\ saved = FALSE

\* ------------------------------------------------------------------ layout
\* keypoints_per_animal / n_animals_in_session after the four-way branch;
\* "raise" when the markers are not evenly divisible by the animal count.
\* (variant: an uneven marker count is truncated instead of rejected)
LayoutOfTruncating(M, A, K) ==
  IF M = 0 /\ A > 0 THEN [raise |-> FALSE, animals |-> A, kpa |-> K]
  ELSE IF A = 0 /\ M > 0 THEN [raise |-> FALSE, animals |-> 1, kpa |-> M]
  ELSE IF A = 0 /\ M = 0 THEN [raise |-> FALSE, animals |-> 0, kpa |-> 0]
  ELSE [raise |-> FALSE, animals |-> A, kpa |-> M \div A]

LayoutOf(M, A, K) ==
  IF M = 0 /\ A > 0 THEN [raise |-> FALSE, animals |-> A, kpa |-> K]
  ELSE IF A = 0 /\ M > 0 THEN [raise |-> FALSE, animals |-> 1, kpa |-> M]
  ELSE IF A = 0 /\ M = 0 THEN [raise |-> FALSE, animals |-> 0, kpa |-> 0]
  ELSE IF M % A # 0 THEN [raise |-> TRUE, animals |-> A, kpa |-> 0]
  ELSE [raise |-> FALSE, animals |-> A, kpa |-> M \div A]

\* (variant: frames are the inner loop)
AfterCameraFramesInner(f, c) ==
  IF f + 1 < num_session_frames THEN [pc |-> "image", f |-> f + 1, c |-> c]
  ELSE IF c + 1 < num_cameras THEN [pc |-> "image", f |-> 0, c |-> c + 1]
  ELSE [pc |-> "save", f |-> f, c |-> c]

\* Position reached when the camera-loop body for (f, c) is left.
AfterCamera(f, c) ==
  IF c + 1 < num_cameras THEN [pc |-> "image", f |-> f, c |-> c + 1]
  ELSE IF f + 1 < num_session_frames THEN [pc |-> "image", f |-> f + 1, c |-> 0]
  ELSE [pc |-> "save", f |-> f, c |-> c]

ComputeLayout ==
  /\ pc = "layout"
  /\ LET lay == LayoutOf(num_total_markers, n_animals_in_session, num_base_keypoints) IN
       /\ n_animals_in_session' = lay.animals
       /\ keypoints_per_animal' = lay.kpa
       /\ pc' = IF lay.raise THEN "raised"
                ELSE IF num_session_frames > 0 /\ num_cameras > 0 THEN "image"
                ELSE "save"
  /\ UNCHANGED << multical_vars, demo_vars >>
  /\ UNCHANGED << inputs, locals, images, annotations, image_id_counter,
                  annotation_id_counter, frame_s_idx, cam_idx, animal_inst_idx,
                  current_image_id, img_height, img_width, saved >>

\* ------------------------------------------------------------------ images
ImageRecord(id, w, h, cam, frame_id) ==
  [id |-> id, width |-> w, height |-> h, file_name |-> <<cam + 1, frame_id>>]

AppendImage ==
  /\ pc = "image"
  /\ image_id_counter' = image_id_counter + 1
  /\ current_image_id' = image_id_counter + 1
  /\ img_height' = image_size_l3d[cam_idx][1]
  /\ img_width' = image_size_l3d[cam_idx][2]
  /\ images' = Append(images,
                 ImageRecord(image_id_counter + 1, image_size_l3d[cam_idx][2],
                             image_size_l3d[cam_idx][1], cam_idx,
                             frames_to_label[frame_s_idx]))
  /\ IF n_animals_in_session = 0
       THEN LET nx == AfterCamera(frame_s_idx, cam_idx) IN
              /\ pc' = nx.pc /\ frame_s_idx' = nx.f /\ cam_idx' = nx.c
              /\ UNCHANGED animal_inst_idx
       ELSE /\ pc' = "animal" /\ animal_inst_idx' = 0
            /\ UNCHANGED << frame_s_idx, cam_idx >>
  /\ UNCHANGED << multical_vars, demo_vars >>
  /\ UNCHANGED << inputs, locals, n_animals_in_session, keypoints_per_animal,
                  annotations, annotation_id_counter, saved >>

\* ------------------------------------------------------------------ decode
\* (variant: the upper image bounds are not tested)
OutOfBoundsNegativeOnly(x, y, w, h) == x < 0 \/ y < 0
OutOfBounds(x, y, w, h) == x < 0 \/ y < 0 \/ x >= w \/ y >= h

\* (variant: the status is looked at before the bounds)
VisibilityStatusFirst(x, y, status_val, w, h) ==
  IF status_val = L3D_STATUS_INVISIBLE THEN 1
  ELSE IF status_val = L3D_STATUS_INITIALIZED \/ status_val = L3D_STATUS_LABELED THEN 2
  ELSE 0
\* (variant: INITIALIZED points are not reported as visible)
VisibilityLabeledOnly(x, y, status_val, w, h) ==
  IF OutOfBounds(x, y, w, h) THEN 0
  ELSE IF status_val = L3D_STATUS_INVISIBLE THEN 1
  ELSE IF status_val = L3D_STATUS_LABELED THEN 2
  ELSE 0

Visibility(x, y, status_val, w, h) ==
  IF OutOfBounds(x, y, w, h) THEN 0
  ELSE IF status_val = L3D_STATUS_INVISIBLE THEN 1
  ELSE IF status_val = L3D_STATUS_INITIALIZED \/ status_val = L3D_STATUS_LABELED THEN 2
  ELSE 0

\* (variant: only the x coordinate is tested for NaN)
KeypointTripleNaNXOnly(kpt_i, kps, stat, kpa, w, h) ==
  IF kpt_i < kpa /\ kpt_i < Len(kps) /\ kpt_i < Len(stat)
  THEN LET x_l3d == kps[kpt_i + 1][1]
           y_l3d == kps[kpt_i + 1][2]
           status_val == stat[kpt_i + 1]
       IN IF ~IsNaN(x_l3d)
          THEN LET x == PyRound(x_l3d.half)
                   y == PyRound(y_l3d.half)
               IN << x, y, Visibility(x, y, status_val, w, h) >>
          ELSE << 0, 0, 0 >>
  ELSE << 0, 0, 0 >>
\* (variant: a point that gets v = 0 also gets its coordinates zeroed)
KeypointTripleZeroHidden(kpt_i, kps, stat, kpa, w, h) ==
  IF kpt_i < kpa /\ kpt_i < Len(kps) /\ kpt_i < Len(stat)
  THEN LET x_l3d == kps[kpt_i + 1][1]
           y_l3d == kps[kpt_i + 1][2]
           status_val == stat[kpt_i + 1]
       IN IF ~IsNaN(x_l3d) /\ ~IsNaN(y_l3d)
          THEN LET x == PyRound(x_l3d.half)
                   y == PyRound(y_l3d.half)
                   v == Visibility(x, y, status_val, w, h)
               IN IF v = 0 THEN << 0, 0, 0 >> ELSE << x, y, v >>
          ELSE << 0, 0, 0 >>
  ELSE << 0, 0, 0 >>

\* The [x, y, v] of canonical joint kpt_i (0-based) of one instance slice.
KeypointTriple(kpt_i, kps, stat, kpa, w, h) ==
  IF kpt_i < kpa /\ kpt_i < Len(kps) /\ kpt_i < Len(stat)
  THEN LET x_l3d == kps[kpt_i + 1][1]
           y_l3d == kps[kpt_i + 1][2]
           status_val == stat[kpt_i + 1]
       IN IF ~IsNaN(x_l3d) /\ ~IsNaN(y_l3d)
          THEN LET x == PyRound(x_l3d.half)
                   y == PyRound(y_l3d.half)
               IN << x, y, Visibility(x, y, status_val, w, h) >>
          ELSE << 0, 0, 0 >>
  ELSE << 0, 0, 0 >>

Triples(K, kps, stat, kpa, w, h) ==
  [i \in 1..K |-> KeypointTriple(i - 1, kps, stat, kpa, w, h)]

Flatten(tr) ==
  [j \in 1..(3 * Len(tr)) |-> tr[((j - 1) \div 3) + 1][((j - 1) % 3) + 1]]

\* (variant: only v = 2 points are counted)
CountLabeledVisibleOnly(tr) == Cardinality({i \in 1..Len(tr) : tr[i][3] = 2})
CountLabeled(tr) == Cardinality({i \in 1..Len(tr) : tr[i][3] > 0})

\* (variant: every labeled point, v > 0, feeds the bounding box)
RECURSIVE VisibleCoordsLabeled(_, _)
VisibleCoordsLabeled(tr, axis) ==
  IF tr = <<>> THEN <<>>
  ELSE (IF tr[1][3] > 0 THEN << tr[1][axis] >> ELSE <<>>)
       \o VisibleCoordsLabeled(Tail(tr), axis)

RECURSIVE VisibleCoords(_, _)
VisibleCoords(tr, axis) ==
  IF tr = <<>> THEN <<>>
  ELSE (IF tr[1][3] = 2 THEN << tr[1][axis] >> ELSE <<>>)
       \o VisibleCoords(Tail(tr), axis)

\* ------------------------------------------------------------------ bbox
BboxFloat(xs, ys, w, h) ==
  IF xs # <<>>
  THEN LET min_x_f == ToFloat(SeqMin(xs))
           max_x_f == ToFloat(SeqMax(xs))
           min_y_f == ToFloat(SeqMin(ys))
           max_y_f == ToFloat(SeqMax(ys))
           min_x_f_clipped == Max2(0, min_x_f)
           min_y_f_clipped == Max2(0, min_y_f)
           max_x_f_clipped == Min2(ToFloat(w - 1), max_x_f)
           max_y_f_clipped == Min2(ToFloat(h - 1), max_y_f)
           bbox_w_f == Max2(0, max_x_f_clipped - min_x_f_clipped)
           bbox_h_f == Max2(0, max_y_f_clipped - min_y_f_clipped)
       IN << min_x_f_clipped, min_y_f_clipped, bbox_w_f, bbox_h_f >>
  ELSE << 0, 0, 0, 0 >>

BboxCoco(xs, ys, w, h) ==
  LET bbox_float == BboxFloat(xs, ys, w, h) IN [c \in 1..4 |-> PyRound(bbox_float[c])]

Area(bbox_coco) == bbox_coco[3] * bbox_coco[4]

\* (variant: the annotation id is stored as the image id)
AnnotationRecordOfOwnId(id, image_id, kps_flat, num_labeled, xs, ys, w, h) ==
  LET bbox_coco == BboxCoco(xs, ys, w, h) IN
  [ id |-> id, image_id |-> id, category_id |-> 1, iscrowd |-> 0,
    area |-> Area(bbox_coco), bbox |-> bbox_coco,
    num_keypoints |-> num_labeled, keypoints |-> kps_flat ]

AnnotationRecord(id, image_id, kps_flat, num_labeled, xs, ys, w, h) ==
  LET bbox_coco == BboxCoco(xs, ys, w, h) IN
  [ id |-> id, image_id |-> image_id, category_id |-> 1, iscrowd |-> 0,
    area |-> Area(bbox_coco), bbox |-> bbox_coco,
    num_keypoints |-> num_labeled, keypoints |-> kps_flat ]

\* ------------------------------------------------------------------ animals
\* (variant: the animal index is taken as 1-based)
marker_start_one_based == (animal_inst_idx + 1) * keypoints_per_animal
marker_start_idx == animal_inst_idx * keypoints_per_animal
marker_end_idx == marker_start_idx + keypoints_per_animal

MarkerEndBeyond == marker_end_idx > num_total_markers
ValidSlice ==
  /\ marker_start_idx < marker_end_idx
  /\ marker_end_idx <= num_total_markers
  /\ cam_idx < num_cameras
  /\ frame_s_idx < num_session_frames

\* (variant: the slice always starts at marker 0)
KpsSliceFromZero(start, end, c, f) ==
  [i \in 1..(end - start) |-> all_cam_points_2d[<<i - 1, c, f>>]]
KpsSlice(start, end, c, f) ==
  [i \in 1..(end - start) |-> all_cam_points_2d[<<start + i - 1, c, f>>]]
StatusSlice(start, end, c, f) ==
  [i \in 1..(end - start) |-> status[<<start + i - 1, c, f>>]]

SkipMarkerEnd ==
  /\ pc = "animal"
  /\ MarkerEndBeyond
  /\ pc' = "skip_marker_end"
  /\ UNCHANGED << multical_vars, demo_vars >>
  /\ UNCHANGED << inputs, locals, n_animals_in_session, keypoints_per_animal,
                  images, annotations, image_id_counter, annotation_id_counter,
                  frame_s_idx, cam_idx, animal_inst_idx,
                  current_image_id, img_height, img_width, saved >>

SkipInvalidSlice ==
  /\ pc = "animal"
  /\ ~MarkerEndBeyond
  /\ ~ValidSlice
  /\ pc' = "skip_invalid_slice"
  /\ UNCHANGED << multical_vars, demo_vars >>
  /\ UNCHANGED << inputs, locals, n_animals_in_session, keypoints_per_animal,
                  images, annotations, image_id_counter, annotation_id_counter,
                  frame_s_idx, cam_idx, animal_inst_idx,
                  current_image_id, img_height, img_width, saved >>

\* (variant: an instance without a v = 2 point is skipped)
NoVisiblePoints(xs, num_labeled) == xs = <<>>
\* "if not visible_xs: if num_labeled_kps_for_instance == 0: continue"
NoLabeledPoints(xs, num_labeled) == xs = <<>> /\ num_labeled = 0

\* Slicing and the kpt_i loop: the locals of one instance.
DecodeInstance ==
  LET kps == KpsSlice(marker_start_idx, marker_end_idx, cam_idx, frame_s_idx)
      stat == StatusSlice(marker_start_idx, marker_end_idx, cam_idx, frame_s_idx)
      tr == Triples(num_base_keypoints, kps, stat, keypoints_per_animal,
                    img_width, img_height)
  IN /\ instance_kps_2d' = kps
     /\ instance_status_vals' = stat
     /\ coco_keypoints_flat' = Flatten(tr)
     /\ num_labeled_kps_for_instance' = CountLabeled(tr)
     /\ visible_xs' = VisibleCoords(tr, 1)
     /\ visible_ys' = VisibleCoords(tr, 2)

\* (variant: a skipped instance consumes an annotation id)
SkipUnlabeledCounting ==
  /\ pc = "animal"
  /\ ~MarkerEndBeyond
  /\ ValidSlice
  /\ DecodeInstance
  /\ NoLabeledPoints(visible_xs', num_labeled_kps_for_instance')
  /\ annotation_id_counter' = annotation_id_counter + 1
  /\ pc' = "skip_unlabeled"
  /\ UNCHANGED << multical_vars, demo_vars >>
  /\ UNCHANGED << inputs, n_animals_in_session, keypoints_per_animal,
                  images, annotations, image_id_counter,
                  frame_s_idx, cam_idx, animal_inst_idx,
                  current_image_id, img_height, img_width, saved >>

SkipUnlabeled ==
  /\ pc = "animal"
  /\ ~MarkerEndBeyond
  /\ ValidSlice
  /\ DecodeInstance
  /\ NoLabeledPoints(visible_xs', num_labeled_kps_for_instance')
  /\ pc' = "skip_unlabeled"
  /\ UNCHANGED << multical_vars, demo_vars >>
  /\ UNCHANGED << inputs, n_animals_in_session, keypoints_per_animal,
                  images, annotations, image_id_counter, annotation_id_counter,
                  frame_s_idx, cam_idx, animal_inst_idx,
                  current_image_id, img_height, img_width, saved >>

AppendAnnotation ==
  /\ pc = "animal"
  /\ ~MarkerEndBeyond
  /\ ValidSlice
  /\ DecodeInstance
  /\ ~NoLabeledPoints(visible_xs', num_labeled_kps_for_instance')
  /\ annotation_id_counter' = annotation_id_counter + 1
  /\ annotations' = Append(annotations,
       AnnotationRecord(annotation_id_counter + 1, current_image_id,
                        coco_keypoints_flat', num_labeled_kps_for_instance',
                        visible_xs', visible_ys', img_width, img_height))
  /\ pc' = "appended"
  /\ UNCHANGED << multical_vars, demo_vars >>
  /\ UNCHANGED << inputs, n_animals_in_session, keypoints_per_animal,
                  images, image_id_counter,
                  frame_s_idx, cam_idx, animal_inst_idx,
                  current_image_id, img_height, img_width, saved >>

BodyExits == {"skip_marker_end", "skip_invalid_slice", "skip_unlabeled", "appended"}

\* The header of the animal loop after a body has run (continue or fall through).
NextAnimal ==
  /\ pc \in BodyExits
  /\ IF animal_inst_idx + 1 < n_animals_in_session
       THEN /\ animal_inst_idx' = animal_inst_idx + 1
            /\ pc' = "animal"
            /\ UNCHANGED << frame_s_idx, cam_idx >>
       ELSE LET nx == AfterCamera(frame_s_idx, cam_idx) IN
              /\ pc' = nx.pc /\ frame_s_idx' = nx.f /\ cam_idx' = nx.c
              /\ UNCHANGED animal_inst_idx
  /\ UNCHANGED << multical_vars, demo_vars >>
  /\ UNCHANGED << inputs, locals, n_animals_in_session, keypoints_per_animal,
                  images, annotations, image_id_counter, annotation_id_counter,
                  current_image_id, img_height, img_width, saved >>

\* ------------------------------------------------------------------ save
SaveCoco ==
  /\ pc = "save"
  /\ saved' = TRUE
  /\ pc' = "done"
  /\ UNCHANGED << multical_vars, demo_vars >>
  /\ UNCHANGED << inputs, locals, n_animals_in_session, keypoints_per_animal,
                  images, annotations, image_id_counter, annotation_id_counter,
                  frame_s_idx, cam_idx, animal_inst_idx,
                  current_image_id, img_height, img_width >>

Next ==
  \/ ComputeLayout
  \/ AppendImage
  \/ SkipMarkerEnd
  \/ SkipInvalidSlice
  \/ SkipUnlabeled
  \/ AppendAnnotation
  \/ NextAnimal
  \/ SaveCoco

Spec == Init /\ [][Next]_vars

\* ================================================================== multical2label3d.py
\* Numbers: an entry of R or T is kept as an integer count of 1e-7, an entry
\* of K or a distortion coefficient as an integer.
One == 10000000             \* 1.0
POSE_TOLERANCE == 10        \* 1e-6

Abs(x) == IF x < 0 THEN -x ELSE x

IdentityR == << << One, 0, 0 >>, << 0, One, 0 >>, << 0, 0, One >> >>
ZeroT == << 0, 0, 0 >>

\* np.allclose(a, b, atol=POSE_TOLERANCE) on one entry: numpy tests
\* |a - b| <= atol + rtol * |b| with its default rtol = 1e-05.
IsClose(a, b) == Abs(a - b) <= POSE_TOLERANCE + (Abs(b) \div 100000)
AllCloseVector(a, b) == \A i \in 1..3 : IsClose(a[i], b[i])
AllCloseMatrix(a, b) == \A i \in 1..3 : AllCloseVector(a[i], b[i])

\* ------------------------------------------------------------------ keys
\* A name is the sequence of its parts; "_to_" is a part of its own, so that
\* the test '_to_' in key is a test on the parts.
BaseNames == { << "cam1" >>, << "cam2" >> }
RelativeKey(cam, ref) == cam \o << "_to_" >> \o ref
HasTo(key) == \E i \in 1..Len(key) : key[i] = "_to_"
\* sorted(): the names in string order
NameOrder == << << "cam1" >>, << "cam2" >>, << "cam2", "_to_", "cam1" >> >>
CameraNames == { NameOrder[i] : i \in 1..Len(NameOrder) }
PoseKeys ==
  BaseNames \cup { RelativeKey(p[1], p[2]) :
                   p \in { q \in BaseNames \X BaseNames : q[1] # q[2] } }

\* ------------------------------------------------------------------ poses
Pose(R, T) == [R |-> R, T |-> T]
Poses ==
  { Pose(IdentityR, ZeroT),
    \* off by 5e-7
    Pose(<< << One, 5, 0 >>, << 0, One, 0 >>, << 0, 0, One >> >>, << 0, -5, 0 >>),
    \* a diagonal entry off by 5e-6
    Pose(<< << One + 50, 0, 0 >>, << 0, One, 0 >>, << 0, 0, One >> >>, ZeroT),
    \* an off-diagonal entry off by 2e-6
    Pose(<< << One, 20, 0 >>, << 0, One, 0 >>, << 0, 0, One >> >>, ZeroT),
    \* T off by 2e-6
    Pose(IdentityR, << 0, 0, 20 >>),
    \* a quarter turn about z, T = (0.1, -0.15, 0.05) m
    Pose(<< << 0, -One, 0 >>, << One, 0, 0 >>, << 0, 0, One >> >>,
         << 1000000, -1500000, 500000 >>),
    \* not orthonormal
    Pose(<< << One, One, 0 >>, << 0, One, 0 >>, << 0, 0, One >> >>, << 300, 0, 0 >>) }

\* camera_poses: the keys in the order of the file, each with its R and T
PoseEntry(key, pose) == [key |-> key, R |-> pose.R, T |-> pose.T]
PoseEntries == { PoseEntry(k, p) : k \in PoseKeys, p \in Poses }
PoseTables ==
  { t \in UNION { [1..n -> PoseEntries] : n \in 0..MaxPoseEntries } :
      \A i, j \in 1..Len(t) : t[i].key = t[j].key => i = j }

\* key in pose_data, pose_data[key]
HasKey(table, key) == \E i \in 1..Len(table) : table[i].key = key
Lookup(table, key) == table[CHOOSE i \in 1..Len(table) : table[i].key = key]

\* ------------------------------------------------------------------ get_extrinsics
\* What a call gives back: the pair it returns or the exception it raises,
\* the warning it prints and the keys of the table it has looked at.
ReturnPose(R, T, warning, looked) ==
  [raised |-> "none", R |-> R, T |-> T, warning |-> warning, looked |-> looked]
RaisePose(exception, looked) ==
  [raised |-> exception, R |-> << >>, T |-> << >>, warning |-> "none",
   looked |-> looked]

get_extrinsics(pose_data, cam_name, ref_cam) ==
  IF cam_name = ref_cam
  THEN IF HasKey(pose_data, ref_cam)
       THEN LET e == Lookup(pose_data, ref_cam) IN
            ReturnPose(e.R, e.T,
                       IF ~AllCloseMatrix(e.R, IdentityR) \/ ~AllCloseVector(e.T, ZeroT)
                       THEN "not identity/zero" ELSE "none",
                       { ref_cam })
       ELSE ReturnPose(IdentityR, ZeroT, "assuming identity", { ref_cam })
  ELSE IF HasKey(pose_data, cam_name)
  THEN LET e == Lookup(pose_data, cam_name) IN
       ReturnPose(e.R, e.T, "direct pose", { cam_name })
  ELSE LET pose_key == RelativeKey(cam_name, ref_cam) IN
       IF ~HasKey(pose_data, pose_key)
       THEN RaisePose("KeyError", { cam_name, pose_key })
       ELSE LET e == Lookup(pose_data, pose_key) IN
            ReturnPose(e.R, e.T, "none", { cam_name, pose_key })

\* (variant: a missing relative key gives the identity pose)
get_extrinsics_json_defaulting(pose_data, cam_name, ref_cam) ==
  IF cam_name = ref_cam
  THEN IF HasKey(pose_data, ref_cam)
       THEN LET e == Lookup(pose_data, ref_cam) IN
            ReturnPose(e.R, e.T,
                       IF ~AllCloseMatrix(e.R, IdentityR) \/ ~AllCloseVector(e.T, ZeroT)
                       THEN "not identity/zero" ELSE "none",
                       { ref_cam })
       ELSE ReturnPose(IdentityR, ZeroT, "assuming identity", { ref_cam })
  ELSE IF HasKey(pose_data, cam_name) /\ ~HasTo(cam_name)
  THEN LET e == Lookup(pose_data, cam_name) IN
       ReturnPose(e.R, e.T, "direct pose", { cam_name })
  ELSE LET pose_key == RelativeKey(cam_name, ref_cam) IN
       IF ~HasKey(pose_data, pose_key)
       THEN ReturnPose(IdentityR, ZeroT, "none", { cam_name, pose_key })
       ELSE LET e == Lookup(pose_data, pose_key) IN
            ReturnPose(e.R, e.T, "none", { cam_name, pose_key })

get_extrinsics_json(pose_data, cam_name, ref_cam) ==
  IF cam_name = ref_cam
  THEN IF HasKey(pose_data, ref_cam)
       THEN LET e == Lookup(pose_data, ref_cam) IN
            ReturnPose(e.R, e.T,
                       IF ~AllCloseMatrix(e.R, IdentityR) \/ ~AllCloseVector(e.T, ZeroT)
                       THEN "not identity/zero" ELSE "none",
                       { ref_cam })
       ELSE ReturnPose(IdentityR, ZeroT, "assuming identity", { ref_cam })
  ELSE IF HasKey(pose_data, cam_name) /\ ~HasTo(cam_name)
  THEN LET e == Lookup(pose_data, cam_name) IN
       ReturnPose(e.R, e.T, "direct pose", { cam_name })
  ELSE LET pose_key == RelativeKey(cam_name, ref_cam) IN
       IF ~HasKey(pose_data, pose_key)
       THEN RaisePose("KeyError", { cam_name, pose_key })
       ELSE LET e == Lookup(pose_data, pose_key) IN
            ReturnPose(e.R, e.T, "none", { cam_name, pose_key })

\* ------------------------------------------------------------------ extract_distortion
\* dist_coeffs: an ndarray (values: its flattened entries), a list whose
\* first element is a list (values: that first list) or a list of numbers.
DistCoeffs(type, values) == [type |-> type, values |-> values]

\* (variant: the first coefficients are taken, whatever the indices say)
RECURSIVE CoeffsPresentLeading(_, _)
CoeffsPresentLeading(coeffs, indices) ==
  IF indices = << >> \/ coeffs = << >> THEN << >>
  ELSE << coeffs[1] >> \o CoeffsPresentLeading(Tail(coeffs), Tail(indices))

\* [coeffs[i] for i in indices if i < coeffs_len]
RECURSIVE CoeffsPresent(_, _)
CoeffsPresent(coeffs, indices) ==
  IF indices = << >> THEN << >>
  ELSE (IF indices[1] < Len(coeffs) THEN << coeffs[indices[1] + 1] >> ELSE << >>)
       \o CoeffsPresent(coeffs, Tail(indices))

\* present + [0.0] * (len(indices) - len(present))
ZeroPadded(present, indices) ==
  present \o [i \in 1..(Len(indices) - Len(present)) |-> 0]

\* (variant: only the radial warning is printed)
extract_distortion_radial_warning_only(dist_coeffs) ==
  IF dist_coeffs.type \in {"ndarray", "list_of_lists"}
  THEN LET coeffs == dist_coeffs.values
           k_indices == << 0, 1, 4 >>
           p_indices == << 2, 3 >>
       IN [raised |-> "none",
           RadialDistortion |->
             ZeroPadded(CoeffsPresent(coeffs, k_indices), k_indices),
           TangentialDistortion |->
             ZeroPadded(CoeffsPresent(coeffs, p_indices), p_indices),
           warnings |-> (IF Len(coeffs) < 2 THEN {"radial"} ELSE {})]
  ELSE [raised |-> "ValueError", RadialDistortion |-> << >>,
        TangentialDistortion |-> << >>, warnings |-> {}]

extract_distortion(dist_coeffs) ==
  IF dist_coeffs.type \in {"ndarray", "list_of_lists"}
  THEN LET coeffs == dist_coeffs.values
           k_indices == << 0, 1, 4 >>
           p_indices == << 2, 3 >>
           coeffs_len == Len(coeffs)
       IN [raised |-> "none",
           RadialDistortion |->
             ZeroPadded(CoeffsPresent(coeffs, k_indices), k_indices),
           TangentialDistortion |->
             ZeroPadded(CoeffsPresent(coeffs, p_indices), p_indices),
           warnings |-> (IF coeffs_len < 2 THEN {"radial"} ELSE {})
                          \cup (IF coeffs_len < 4 THEN {"tangential"} ELSE {})]
  ELSE [raised |-> "ValueError", RadialDistortion |-> << >>,
        TangentialDistortion |-> << >>, warnings |-> {}]

\* ------------------------------------------------------------------ calls
CoeffValues == { 0, 4, -9 }
CoeffLists == UNION { [1..n -> CoeffValues] : n \in 0..MaxCoeffs }
DistTypes == { "ndarray", "list_of_lists", "list_of_numbers" }

\* The arguments of a call of get_extrinsics or get_extrinsics_json, and of
\* a call of extract_distortion.
PoseCall(f, t, c, r) ==
  [fn |-> f, pose_data |-> t, cam_name |-> c, ref_cam |-> r,
   dist_coeffs |-> NoCall.dist_coeffs]
DistCall(ty, v) ==
  [fn |-> "extract_distortion", pose_data |-> << >>, cam_name |-> NoCamera,
   ref_cam |-> NoCamera, dist_coeffs |-> DistCoeffs(ty, v)]

HelpersInit ==
  /\ L3dIdle /\ MainIdle /\ DemosIdle
  /\ \/ \E f \in {"get_extrinsics", "get_extrinsics_json"}, t \in PoseTables,
           c \in CameraNames, r \in BaseNames : call = PoseCall(f, t, c, r)
     \/ \E ty \in DistTypes, v \in CoeffLists : call = DistCall(ty, v)
  /\ returned = << >>

CallGetExtrinsics ==
  /\ call.fn = "get_extrinsics"
  /\ returned = << >>
  /\ returned' = << get_extrinsics(call.pose_data, call.cam_name, call.ref_cam) >>
  /\ UNCHANGED << call, l3d_vars, main_vars, demo_vars >>

CallGetExtrinsicsJson ==
  /\ call.fn = "get_extrinsics_json"
  /\ returned = << >>
  /\ returned' = << get_extrinsics_json(call.pose_data, call.cam_name, call.ref_cam) >>
  /\ UNCHANGED << call, l3d_vars, main_vars, demo_vars >>

CallExtractDistortion ==
  /\ call.fn = "extract_distortion"
  /\ returned = << >>
  /\ returned' = << extract_distortion(call.dist_coeffs) >>
  /\ UNCHANGED << call, l3d_vars, main_vars, demo_vars >>

HelpersNext ==
  \/ CallGetExtrinsics
  \/ CallGetExtrinsicsJson
  \/ CallExtractDistortion

SpecHelpers == HelpersInit /\ [][HelpersNext]_vars

\* ------------------------------------------------------------------ main: inputs
\* One camera of the 'cameras' table or of the workspace.
Intrinsics(K, dist, image_size) ==
  [K |-> K, dist |-> dist, image_size |-> image_size]
IntrinsicsList ==
  << Intrinsics(<< << 800, 0, 320 >>, << 0, 810, 240 >>, << 0, 0, 1 >> >>,
                DistCoeffs("list_of_lists", << 4, -9, 2, 7, 5 >>), << 640, 480 >>),
     \* a K with a skew entry, two coefficients
     Intrinsics(<< << 700, 3, 300 >>, << 0, 710, 200 >>, << 0, 0, 1 >> >>,
                DistCoeffs("list_of_lists", << 4, -9 >>), << 600, 400 >>),
     \* coefficients as a flat list
     Intrinsics(<< << 900, 0, 512 >>, << 0, 905, 384 >>, << 0, 0, 1 >> >>,
                DistCoeffs("list_of_numbers", << 4, -9, 2, 7, 5 >>), << 1024, 768 >>) >>

NameRank(name) == CHOOSE i \in 1..Len(NameOrder) : NameOrder[i] = name
IntrinsicsAt(i) == IntrinsicsList[(i % Len(IntrinsicsList)) + 1]

\* json_data['cameras']: the cameras S, their intrinsics taken from the list
\* starting at place s
CameraTables ==
  { [n \in S |-> IntrinsicsAt(NameRank(n) + s)] :
    S \in SUBSET BaseNames, s \in 0..(Len(IntrinsicsList) - 1) }

\* The loaded file, with or without its two top-level keys
JsonFile(has_camera_poses, t, has_cameras, c) ==
  [has_camera_poses |-> has_camera_poses, camera_poses |-> t,
   has_cameras |-> has_cameras, cameras |-> c]

\* workspace.names.camera, calib_obj.cameras and the (N, 4, 4) pose table,
\* a 4x4 pose kept as its rotation block R and its translation column T
NameLists ==
  { << >> } \cup { << a >> : a \in BaseNames }
  \cup { << p[1], p[2] >> : p \in { q \in BaseNames \X BaseNames : q[1] # q[2] } }
Workspace(nl, s, ps) ==
  [names |-> nl, cameras |-> [i \in 1..Len(nl) |-> IntrinsicsAt(i + s)],
   poses |-> ps]

MainInit ==
  /\ L3dIdle /\ HelpersIdle /\ DemosIdle
  /\ mpc = "load"
  /\ \/ /\ use_pkl = FALSE
        /\ \/ \E t \in PoseTables, c \in CameraTables :
                json_data = JsonFile(TRUE, t, TRUE, c)
           \/ \E c \in CameraTables : json_data = JsonFile(FALSE, << >>, TRUE, c)
           \/ \E t \in PoseTables : json_data = JsonFile(TRUE, t, FALSE, << >>)
        /\ workspace = NoWorkspace
     \/ /\ use_pkl = TRUE
        /\ json_data = NoJson
        /\ \E nl \in NameLists, s \in 0..(Len(IntrinsicsList) - 1) :
             \E ps \in [1..Len(nl) -> Poses] : workspace = Workspace(nl, s, ps)
  /\ detected_ref_cam = NoCamera
  /\ target_cameras = << >>
  /\ all_intrinsics = << >> /\ all_extrinsics = << >>
  /\ cam_pos = 0
  /\ K_original = << >> /\ R_w_cam = << >> /\ T_w_cam = << >>
  /\ mat_files = << >>
  /\ processed_count = 0
  /\ output_dir_exists = FALSE

\* ------------------------------------------------------------------ main: loading
NamesOf(names) == { names[i] : i \in 1..Len(names) }
PlaceOf(names, name) == CHOOSE i \in 1..Len(names) : names[i] = name

\* sorted(list(...))
Sorted(S) == SelectSeq(NameOrder, LAMBDA n : n \in S)

extract_intrinsics_pkl(ws) ==
  [n \in NamesOf(ws.names) |->
     LET cam_calib == ws.cameras[PlaceOf(ws.names, n)] IN
       Intrinsics(cam_calib.K, DistCoeffs("ndarray", cam_calib.dist.values),
                  cam_calib.image_size)]

extract_extrinsics_pkl(ws) ==
  [n \in NamesOf(ws.names) |->
     LET pose_world_to_cam_4x4 == ws.poses[PlaceOf(ws.names, n)] IN
       [R |-> pose_world_to_cam_4x4.R, T |-> pose_world_to_cam_4x4.T]]

\* The loop over camera_poses.items(): the first key without "_to_" whose
\* pose passes both np.allclose tests, None when there is none.
RECURSIVE DetectReference(_)
DetectReference(camera_poses) ==
  IF camera_poses = << >> THEN NoCamera
  ELSE LET pose_key == camera_poses[1].key
           is_identity_R == AllCloseMatrix(camera_poses[1].R, IdentityR)
           is_zero_T == AllCloseVector(camera_poses[1].T, ZeroT)
       IN IF ~HasTo(pose_key) /\ is_identity_R /\ is_zero_T THEN pose_key
          ELSE DetectReference(Tail(camera_poses))

LoadPkl ==
  /\ mpc = "load"
  /\ use_pkl
  /\ all_intrinsics' = extract_intrinsics_pkl(workspace)
  /\ all_extrinsics' = extract_extrinsics_pkl(workspace)
  /\ IF DOMAIN all_intrinsics' = {} \/ DOMAIN all_extrinsics' = {}
       THEN mpc' = "failed" /\ UNCHANGED target_cameras
       ELSE mpc' = "loaded" /\ target_cameras' = Sorted(NamesOf(workspace.names))
  /\ UNCHANGED << use_pkl, json_data, workspace, detected_ref_cam, cam_pos,
                  K_original, R_w_cam, T_w_cam, mat_files, processed_count,
                  output_dir_exists >>
  /\ UNCHANGED << l3d_vars, helper_vars, demo_vars >>

LoadJson ==
  /\ mpc = "load"
  /\ ~use_pkl
  /\ detected_ref_cam' =
       IF json_data.has_camera_poses
       THEN DetectReference(json_data.camera_poses) ELSE NoCamera
  /\ IF detected_ref_cam' = NoCamera
       THEN mpc' = "failed" /\ UNCHANGED << all_intrinsics, target_cameras >>
       ELSE IF ~json_data.has_cameras \/ ~json_data.has_camera_poses
       THEN mpc' = "failed" /\ UNCHANGED << all_intrinsics, target_cameras >>
       ELSE /\ all_intrinsics' = json_data.cameras
            /\ target_cameras' = Sorted(DOMAIN json_data.cameras)
            /\ mpc' = "loaded"
  /\ UNCHANGED << use_pkl, json_data, workspace, all_extrinsics, cam_pos,
                  K_original, R_w_cam, T_w_cam, mat_files, processed_count,
                  output_dir_exists >>
  /\ UNCHANGED << l3d_vars, helper_vars, demo_vars >>

\* "if not target_cameras: return", then the output directory
PrepareOutput ==
  /\ mpc = "loaded"
  /\ IF target_cameras = << >>
       THEN mpc' = "failed" /\ UNCHANGED << output_dir_exists, cam_pos >>
       ELSE mpc' = "camera" /\ output_dir_exists' = TRUE /\ cam_pos' = 1
  /\ UNCHANGED << use_pkl, json_data, workspace, detected_ref_cam,
                  target_cameras, all_intrinsics, all_extrinsics,
                  K_original, R_w_cam, T_w_cam, mat_files, processed_count >>
  /\ UNCHANGED << l3d_vars, helper_vars, demo_vars >>

\* ------------------------------------------------------------------ main: export
\* (variant: the rotation is stored as it is)
r_not_transposed(R_w_cam_np) == R_w_cam_np
\* R_w_cam_np.T
r_final_for_mat(R_w_cam_np) ==
  [i \in 1..3 |-> [j \in 1..3 |-> R_w_cam_np[j][i]]]

\* (T_w_cam_np.reshape(3, 1) * 1000.0).T
t_final_for_mat_mm_row(T_w_cam_np) ==
  << [i \in 1..3 |-> T_w_cam_np[i] * 1000] >>

\* (variant: K is stored as it is)
K_unchanged(K_np_original) == K_np_original
K_label3d(K_np_original) ==
  LET fx == K_np_original[1][1]
      fy == K_np_original[2][2]
      cx == K_np_original[1][3]
      cy == K_np_original[2][3]
  IN << << fx, 0, 0 >>, << 0, fy, 0 >>, << cx, cy, 1 >> >>

\* np.asarray(v).reshape(-1, 1)
Column(v) == [i \in 1..Len(v) |-> << v[i] >>]

mat_dict(K_np_original, R_w_cam_np, T_w_cam_np, RDistort, TDistort, img_size) ==
  [K |-> K_label3d(K_np_original),
   r |-> r_final_for_mat(R_w_cam_np),
   t |-> t_final_for_mat_mm_row(T_w_cam_np),
   RDistort |-> Column(RDistort),
   TDistort |-> Column(TDistort),
   image_size |-> img_size]

\* The try block of the camera loop: the locals it leaves and the mat_dict
\* it saves, or none after a "continue" or an exception.
Skipping(K, R, T) == [saved |-> FALSE, K |-> K, R |-> R, T |-> T, mat |-> << >>]
Saving(K, R, T, mat) == [saved |-> TRUE, K |-> K, R |-> R, T |-> T, mat |-> mat]

TryCamera(cam_name) ==
  IF cam_name \notin DOMAIN all_intrinsics
  THEN Skipping(K_original, R_w_cam, T_w_cam)
  ELSE LET intrinsics == all_intrinsics[cam_name]
           dist == extract_distortion(intrinsics.dist)
       IN IF dist.raised # "none"
          THEN Skipping(intrinsics.K, R_w_cam, T_w_cam)
          ELSE IF use_pkl
          THEN IF cam_name \notin DOMAIN all_extrinsics
               THEN Skipping(intrinsics.K, R_w_cam, T_w_cam)
               ELSE LET extrinsics == all_extrinsics[cam_name] IN
                    Saving(intrinsics.K, extrinsics.R, extrinsics.T,
                           mat_dict(intrinsics.K, extrinsics.R, extrinsics.T,
                                    dist.RadialDistortion, dist.TangentialDistortion,
                                    intrinsics.image_size))
          ELSE LET pose == get_extrinsics_json(json_data.camera_poses, cam_name,
                                               detected_ref_cam)
               IN IF pose.raised # "none"
                  THEN Skipping(intrinsics.K, R_w_cam, T_w_cam)
                  ELSE Saving(intrinsics.K, pose.R, pose.T,
                              mat_dict(intrinsics.K, pose.R, pose.T,
                                       dist.RadialDistortion, dist.TangentialDistortion,
                                       intrinsics.image_size))

ExportCamera ==
  /\ mpc = "camera"
  /\ LET cam_name == target_cameras[cam_pos]
         try == TryCamera(cam_name)
     IN /\ try.saved
        /\ K_original' = try.K /\ R_w_cam' = try.R /\ T_w_cam' = try.T
        /\ mat_files' = [n \in DOMAIN mat_files \cup { cam_name } |->
                           IF n = cam_name THEN try.mat ELSE mat_files[n]]
  /\ processed_count' = processed_count + 1
  /\ mpc' = "saved_mat"
  /\ UNCHANGED << use_pkl, json_data, workspace, detected_ref_cam,
                  target_cameras, all_intrinsics, all_extrinsics, cam_pos,
                  output_dir_exists >>
  /\ UNCHANGED << l3d_vars, helper_vars, demo_vars >>

SkipCamera ==
  /\ mpc = "camera"
  /\ LET try == TryCamera(target_cameras[cam_pos])
     IN /\ ~try.saved
        /\ K_original' = try.K /\ R_w_cam' = try.R /\ T_w_cam' = try.T
  /\ mpc' = "skipped"
  /\ UNCHANGED << use_pkl, json_data, workspace, detected_ref_cam,
                  target_cameras, all_intrinsics, all_extrinsics, cam_pos,
                  mat_files, processed_count, output_dir_exists >>
  /\ UNCHANGED << l3d_vars, helper_vars, demo_vars >>

\* The header of the camera loop after a body has run.
NextCamera ==
  /\ mpc \in {"saved_mat", "skipped"}
  /\ IF cam_pos < Len(target_cameras)
       THEN cam_pos' = cam_pos + 1 /\ mpc' = "camera"
       ELSE mpc' = "finished" /\ UNCHANGED cam_pos
  /\ UNCHANGED << use_pkl, json_data, workspace, detected_ref_cam,
                  target_cameras, all_intrinsics, all_extrinsics,
                  K_original, R_w_cam, T_w_cam, mat_files, processed_count,
                  output_dir_exists >>
  /\ UNCHANGED << l3d_vars, helper_vars, demo_vars >>

MainNext ==
  \/ LoadPkl
  \/ LoadJson
  \/ PrepareOutput
  \/ ExportCamera
  \/ SkipCamera
  \/ NextCamera

SpecMain == MainInit /\ [][MainNext]_vars

\* ================================================================== create_coco_skeleton.py
\* The skeleton definition of the script, its validation and the file it
\* saves; then the part of l3d_to_coco that reads such a file into the
\* category of the COCO output.  A definition has the first K of the joint
\* names, rows of indices and rows of colours.
COCO_JOINT_NAMES ==
  << "nose", "left_eye", "right_eye", "left_ear", "right_ear",
     "left_shoulder", "right_shoulder", "left_elbow", "right_elbow",
     "left_wrist", "right_wrist", "left_hip", "right_hip",
     "left_knee", "right_knee", "left_ankle", "right_ankle" >>
\* yellow, white, blue
Palette == << << 1, 1, 0 >>, << 1, 1, 1 >>, << 0, 0, 1 >> >>

SkeletonInit ==
  /\ L3dIdle /\ HelpersIdle /\ MainIdle /\ PrepareIdle /\ ExtractIdle
  /\ spc = "defined"
  /\ \E K \in 0..MaxBaseKeypoints :
       /\ joint_names = SubSeq(COCO_JOINT_NAMES, 1, K)
       /\ \E n \in 0..MaxEdges :
            joints_idx \in [1..n -> (0..(K + 1)) \X (0..(K + 1))]
  /\ \E n \in 0..MaxEdges :
       colors = [i \in 1..n |-> Palette[((i - 1) % Len(Palette)) + 1]]
  /\ skeleton_file = NoFile
  /\ base_skel_joint_names = << >> /\ base_skel_edges = << >>
  /\ categories = << >>

\* np.max and np.min of an array with rows
ArrayEntries(a) == { a[r][i] : r \in 1..Len(a), i \in 1..2 }
ArrayMax(a) == CHOOSE x \in ArrayEntries(a) : \A y \in ArrayEntries(a) : y <= x
ArrayMin(a) == CHOOSE x \in ArrayEntries(a) : \A y \in ArrayEntries(a) : x <= y

\* The "Validation" block: what it raises.  An array without rows has one
\* axis only, so that its shape[1] is an IndexError.
ValidationError ==
  LET num_connections == Len(joints_idx)
      num_colors == Len(colors)
  IN IF num_connections # num_colors THEN "ValueError"
     ELSE IF joints_idx = << >> THEN "IndexError"
     ELSE IF Len(joints_idx[1]) # 2 THEN "ValueError"
     ELSE IF Len(colors[1]) # 3 THEN "ValueError"
     ELSE IF ArrayMax(joints_idx) > Len(joint_names) THEN "ValueError"
     ELSE IF ArrayMin(joints_idx) < 1 THEN "ValueError"
     ELSE "none"

ValidateSkeleton ==
  /\ spc = "defined"
  /\ spc' = IF ValidationError = "none" THEN "validated" ELSE "raised"
  /\ UNCHANGED << joint_names, joints_idx, colors, skeleton_file,
                  base_skel_joint_names, base_skel_edges, categories >>
  /\ UNCHANGED << l3d_vars, multical_vars, prepare_vars, extract_vars >>

skeleton_data ==
  [exists |-> TRUE, joint_names |-> joint_names, joints_idx |-> joints_idx,
   color |-> colors]

\* main: savemat writes the file, or its exception is printed
SaveSkeleton ==
  /\ spc = "validated"
  /\ \/ skeleton_file' = skeleton_data /\ spc' = "saved"
     \/ skeleton_file' = skeleton_file /\ spc' = "save_failed"
  /\ UNCHANGED << joint_names, joints_idx, colors,
                  base_skel_joint_names, base_skel_edges, categories >>
  /\ UNCHANGED << l3d_vars, multical_vars, prepare_vars, extract_vars >>

\* sio.loadmat(..., simplify_cells=True) squeezes the unit axes: a 1 x K
\* cell of names comes back as a str for K = 1 and as a 1-D object array
\* otherwise, an N x 2 array as a 1-D array of 2 for N = 1.
LoadedNames(cell) ==
  IF Len(cell) = 1 THEN [type |-> "str", value |-> cell[1]]
  ELSE [type |-> "ndarray", value |-> cell]
LoadedArray(rows) ==
  IF Len(rows) = 1 THEN [ndim |-> 1, value |-> rows[1]]
  ELSE [ndim |-> 2, value |-> rows]

JointNamesList(base_skel_joint_names_raw) ==
  IF base_skel_joint_names_raw.type = "str"
  THEN << base_skel_joint_names_raw.value >>
  ELSE base_skel_joint_names_raw.value

\* raw - 1 on uint8 entries
Minus1(x) == (x + 255) % 256

\* (variant: the indices are kept 1-based)
EdgesAsStored(base_skel_edges_raw) ==
  IF base_skel_edges_raw.ndim = 1 THEN << base_skel_edges_raw.value >>
  ELSE base_skel_edges_raw.value

\* (base_skel_edges_raw - 1).astype(int).tolist(), a 1-D array of 2 being
\* one edge
EdgesZeroBased(base_skel_edges_raw) ==
  IF base_skel_edges_raw.ndim = 1 /\ Len(base_skel_edges_raw.value) = 2
  THEN << [i \in 1..2 |-> Minus1(base_skel_edges_raw.value[i])] >>
  ELSE IF base_skel_edges_raw.ndim = 2
  THEN [r \in 1..Len(base_skel_edges_raw.value) |->
          [i \in 1..Len(base_skel_edges_raw.value[r]) |->
             Minus1(base_skel_edges_raw.value[r][i])]]
  ELSE [i \in 1..Len(base_skel_edges_raw.value) |->
          Minus1(base_skel_edges_raw.value[i])]

Category(keypoints, skeleton) ==
  [id |-> 1, name |-> "monkey", supercategory |-> "monkey",
   keypoints |-> keypoints, skeleton |-> skeleton]

\* l3d_to_coco: the base skeleton file is loaded and parsed, and the one
\* category is appended
PopulateCategories ==
  /\ spc = "saved"
  /\ base_skel_joint_names' = JointNamesList(LoadedNames(skeleton_file.joint_names))
  /\ base_skel_edges' = EdgesZeroBased(LoadedArray(skeleton_file.joints_idx))
  /\ categories' = Append(categories,
                          Category(base_skel_joint_names', base_skel_edges'))
  /\ spc' = "category"
  /\ UNCHANGED << joint_names, joints_idx, colors, skeleton_file >>
  /\ UNCHANGED << l3d_vars, multical_vars, prepare_vars, extract_vars >>

SkeletonNext ==
  \/ ValidateSkeleton
  \/ SaveSkeleton
  \/ PopulateCategories

SpecSkeleton == SkeletonInit /\ [][SkeletonNext]_vars

\* ================================================================== prepare_label3d_poses.py
\* main, for JSON files of the video form ("instance_info").  The files of
\* the cameras are kept as one sequence of instance entries in the order
\* the loops read them: camera by camera, each entry with the camera, the
\* frame_id of its frame and the instance.  Scores are in tenths.
processed_camera_names == << "Cam_001", "Cam_002" >>
FrameIds == { 5, 7 }
InstanceIds == { 1, 2 }
InstanceForms == { "no_scores", "all_high", "first_low", "short_keypoints",
                   "short_scores" }

\* The instance entry at place pos: its keypoints are told apart by pos.
InstanceEntry(pos, cam_name, frame_id, instance_id, form, K) ==
  LET nk == IF form = "short_keypoints" THEN K - 1 ELSE K
      ns == IF form = "no_scores" THEN 0
            ELSE IF form = "short_scores" THEN K - 1 ELSE K
  IN [cam_name |-> cam_name, frame_id |-> frame_id,
      instance_id |-> instance_id,
      keypoints |-> [j \in 1..nk |-> << 10 * pos + j, 100 + j >>],
      keypoint_scores |->
        [j \in 1..ns |-> IF form = "first_low" /\ j = 1 THEN 3 ELSE 9]]

PrepareInit ==
  /\ L3dIdle /\ HelpersIdle /\ MainIdle /\ SkeletonIdle /\ ExtractIdle
  /\ ppc = "skeleton"
  /\ skel_data \in -1..MaxJoints
  /\ kpt_score_threshold = 5
  /\ \E n \in 0..MaxEntries :
       \E cams \in [1..n -> 1..Len(processed_camera_names)],
          frames \in [1..n -> FrameIds], ids \in [1..n -> InstanceIds],
          forms \in [1..n -> InstanceForms] :
         /\ \A i \in 1..(n - 1) : cams[i] <= cams[i + 1]
         /\ camera_json_data_map =
              [i \in 1..n |->
                 InstanceEntry(i, processed_camera_names[cams[i]], frames[i],
                               ids[i], forms[i],
                               IF skel_data < 0 THEN 0 ELSE skel_data)]
  /\ num_keypoints_per_instance = 0
  /\ sorted_frame_ids = << >> /\ sorted_instance_ids = << >>
  /\ cam_points_data = << >> /\ status_data = << >>
  /\ entry_pos = 0
  /\ mat_written = FALSE

\* parser.error leaves the program
LoadSkeleton ==
  /\ ppc = "skeleton"
  /\ IF skel_data < 0 \/ skel_data = 0
       THEN ppc' = "exit" /\ UNCHANGED num_keypoints_per_instance
       ELSE ppc' = "discover" /\ num_keypoints_per_instance' = skel_data
  /\ UNCHANGED << skel_data, kpt_score_threshold, camera_json_data_map,
                  sorted_frame_ids, sorted_instance_ids, cam_points_data,
                  status_data, entry_pos, mat_written >>
  /\ UNCHANGED << l3d_vars, multical_vars, skeleton_vars, extract_vars >>

\* sorted(list(S)) for a set of numbers
RECURSIVE SortedList(_)
SortedList(S) ==
  IF S = {} THEN << >>
  ELSE LET least == CHOOSE x \in S : \A y \in S : x <= y
       IN << least >> \o SortedList(S \ { least })

\* The discovery of the frame ids and instance ids, and the two arrays
Discover ==
  /\ ppc = "discover"
  /\ LET all_frame_ids_set ==
           { camera_json_data_map[i].frame_id : i \in DOMAIN camera_json_data_map }
         all_instance_ids_set ==
           { camera_json_data_map[i].instance_id : i \in DOMAIN camera_json_data_map }
         total_num_markers ==
           Cardinality(all_instance_ids_set) * num_keypoints_per_instance
         cells == (0..(total_num_markers - 1))
                    \X (0..(Len(processed_camera_names) - 1))
                    \X (0..(Cardinality(all_frame_ids_set) - 1))
     IN IF all_frame_ids_set = {} \/ all_instance_ids_set = {}
        THEN /\ ppc' = "exit"
             /\ UNCHANGED << sorted_frame_ids, sorted_instance_ids,
                             cam_points_data, status_data, entry_pos >>
        ELSE /\ sorted_frame_ids' = SortedList(all_frame_ids_set)
             /\ sorted_instance_ids' = SortedList(all_instance_ids_set)
             /\ cam_points_data' = [cell \in cells |-> << NaN, NaN >>]
             /\ status_data' = [cell \in cells |-> 0]
             /\ entry_pos' = 1
             /\ ppc' = "populate"
  /\ UNCHANGED << skel_data, kpt_score_threshold, camera_json_data_map,
                  num_keypoints_per_instance, mat_written >>
  /\ UNCHANGED << l3d_vars, multical_vars, skeleton_vars, extract_vars >>

\* (variant: the score is not compared with the threshold)
JointPassesUnscored(inst_json, joint_idx) ==
  Len(inst_json.keypoints[joint_idx + 1]) = 2

\* The test of one joint of an instance with the right counts
JointPasses(inst_json, joint_idx) ==
  LET scores_list == inst_json.keypoint_scores
      point_xy == inst_json.keypoints[joint_idx + 1]
      score == IF scores_list # << >> /\ joint_idx < Len(scores_list)
               THEN scores_list[joint_idx + 1] ELSE kpt_score_threshold
  IN score >= kpt_score_threshold /\ Len(point_xy) = 2

CountsMatch(inst_json) ==
  /\ Len(inst_json.keypoints) = num_keypoints_per_instance
  /\ \/ inst_json.keypoint_scores = << >>
     \/ Len(inst_json.keypoint_scores) = num_keypoints_per_instance

\* The joints an instance entry writes, each with its marker
JointsWritten(inst_json) ==
  IF CountsMatch(inst_json)
  THEN { joint_idx \in 0..(num_keypoints_per_instance - 1) :
           JointPasses(inst_json, joint_idx) }
  ELSE {}

\* The body of the instance loop for the entry at entry_pos
PopulateEntry ==
  /\ ppc = "populate"
  /\ entry_pos <= Len(camera_json_data_map)
  /\ LET inst_json == camera_json_data_map[entry_pos]
         cam_index == PlaceOf(processed_camera_names, inst_json.cam_name) - 1
         mat_frame_idx == PlaceOf(sorted_frame_ids, inst_json.frame_id) - 1
         instance_slot_idx == PlaceOf(sorted_instance_ids, inst_json.instance_id) - 1
         marker_offset == instance_slot_idx * num_keypoints_per_instance
         Written(cell) ==
           /\ cell[2] = cam_index /\ cell[3] = mat_frame_idx
           /\ cell[1] - marker_offset \in JointsWritten(inst_json)
     IN /\ cam_points_data' =
             [cell \in DOMAIN cam_points_data |->
                IF Written(cell)
                THEN LET point_xy == inst_json.keypoints[cell[1] - marker_offset + 1]
                     IN << Float(ToFloat(point_xy[1])), Float(ToFloat(point_xy[2])) >>
                ELSE cam_points_data[cell]]
        /\ status_data' =
             [cell \in DOMAIN status_data |->
                IF Written(cell) THEN 1 ELSE status_data[cell]]
  /\ entry_pos' = entry_pos + 1
  /\ UNCHANGED << ppc, skel_data, kpt_score_threshold, camera_json_data_map,
                  num_keypoints_per_instance, sorted_frame_ids,
                  sorted_instance_ids, mat_written >>
  /\ UNCHANGED << l3d_vars, multical_vars, skeleton_vars, extract_vars >>

SavePoses ==
  /\ ppc = "populate"
  /\ entry_pos > Len(camera_json_data_map)
  /\ mat_written' = TRUE
  /\ ppc' = "done"
  /\ UNCHANGED << skel_data, kpt_score_threshold, camera_json_data_map,
                  num_keypoints_per_instance, sorted_frame_ids,
                  sorted_instance_ids, cam_points_data, status_data, entry_pos >>
  /\ UNCHANGED << l3d_vars, multical_vars, skeleton_vars, extract_vars >>

PrepareNext ==
  \/ LoadSkeleton
  \/ Discover
  \/ PopulateEntry
  \/ SavePoses

SpecPrepare == PrepareInit /\ [][PrepareNext]_vars

\* ================================================================== extract_training_imgs.py
\* extract_frames.  A string of digits is the sequence of its digits; a
\* file name is none, a name the pattern does not match, or
\* "Cam_{camera}_frame_{frame}.jpg" kept as its two digit strings.  All
\* names are of one camera, whose video has MaxVideoFrames frames.

\* int(s) and str(n)
RECURSIVE IntOf(_)
IntOf(digits) ==
  IF digits = << >> THEN 0
  ELSE 10 * IntOf(SubSeq(digits, 1, Len(digits) - 1)) + digits[Len(digits)]
RECURSIVE StrOf(_)
StrOf(n) == IF n < 10 THEN << n >> ELSE StrOf(n \div 10) \o << n % 10 >>

\* The file names l3d_to_coco writes carry the frame id as six digits.
FileNames ==
  { [form |-> "none"], [form |-> "other"] }
  \cup { [form |-> "cam_frame", camera_id_str |-> << 1 >>,
          frame_number_str |-> << 0, 0, 0, 0, 0, n >>] :
         n \in 0..(MaxVideoFrames + 1) }

ExtractInit ==
  /\ L3dIdle /\ HelpersIdle /\ MainIdle /\ SkeletonIdle /\ PrepareIdle
  /\ epc = "loaded"
  /\ test_mode \in BOOLEAN
  /\ frames_to_exclude \in { {}, { StrOf(0), StrOf(2) } }
  /\ \E n \in 0..MaxImages, annotated \in { << >>, << 1 >> } :
       \E names \in [1..n -> FileNames] :
         full_coco_data =
           [images |-> [i \in 1..n |-> [id |-> i, file_name |-> names[i]]],
            annotations |-> [a \in 1..Len(annotated) |->
                               [image_id |-> annotated[a]]]]
  /\ video \in { "missing", "closed", "ok" }
  /\ output_files \in
       SUBSET { full_coco_data.images[i].file_name :
                  i \in { j \in DOMAIN full_coco_data.images :
                            full_coco_data.images[j].file_name.form = "cam_frame" } }
  /\ images_to_process = << >> /\ image_pos = 0
  /\ extracted_count = 0 /\ failed_count = 0 /\ excluded_by_rule_count = 0
  /\ processed_image_id_for_test = << >>
  /\ frame_reads = << >> /\ log = << >>

image_has_annotations(coco_data, image_id) ==
  \E a \in DOMAIN coco_data.annotations :
    coco_data.annotations[a].image_id = image_id

\* The copy of the images list, shuffled in test mode; an empty list
\* returns at once.
StartLoop ==
  /\ epc = "loaded"
  /\ IF full_coco_data.images = << >>
       THEN epc' = "returned" /\ UNCHANGED << images_to_process, image_pos >>
       ELSE /\ epc' = "loop" /\ image_pos' = 1
            /\ LET n == Len(full_coco_data.images) IN
                 \E order \in [1..n -> 1..n] :
                   /\ \A i, j \in 1..n : i # j => order[i] # order[j]
                   /\ test_mode \/ \A i \in 1..n : order[i] = i
                   /\ images_to_process' =
                        [i \in 1..n |-> full_coco_data.images[order[i]]]
  /\ UNCHANGED << test_mode, frames_to_exclude, full_coco_data, video,
                  output_files, extracted_count, failed_count,
                  excluded_by_rule_count, processed_image_id_for_test,
                  frame_reads, log >>
  /\ UNCHANGED << l3d_vars, multical_vars, skeleton_vars, prepare_vars >>

\* (variant: the frame number string is looked up as it is written)
ExcludedAsWritten(frame_number_str) == frame_number_str \in frames_to_exclude
ExcludedByRule(frame_number_str) ==
  StrOf(IntOf(frame_number_str)) \in frames_to_exclude

\* (variant: the label is taken as the 0-based index)
label_as_index(frame_number) == frame_number
cv2_frame_index(frame_number) == frame_number - 1

\* What the loop body does with one image: the counter it adds to, the
\* frame index it asks of the video and whether it writes the image.
Outcome(tally, read, wrote) == [tally |-> tally, read |-> read, wrote |-> wrote]
LoopBody(image_info, imwrite_raises) ==
  LET img_file_name == image_info.file_name IN
  IF img_file_name.form = "none" THEN Outcome("failed", << >>, FALSE)
  ELSE IF img_file_name.form # "cam_frame" THEN Outcome("failed", << >>, FALSE)
  ELSE LET frame_number_str == img_file_name.frame_number_str
           frame_number == IntOf(frame_number_str)
       IN IF ExcludedByRule(frame_number_str)
          THEN Outcome("excluded", << >>, FALSE)
          ELSE IF frame_number <= 0 THEN Outcome("failed", << >>, FALSE)
          ELSE IF img_file_name \in output_files
          THEN Outcome("extracted", << >>, FALSE)
          ELSE IF video # "ok" THEN Outcome("failed", << >>, FALSE)
          ELSE IF cv2_frame_index(frame_number) \in 0..(MaxVideoFrames - 1)
          THEN IF imwrite_raises
               THEN Outcome("failed", << cv2_frame_index(frame_number) >>, FALSE)
               ELSE Outcome("extracted", << cv2_frame_index(frame_number) >>, TRUE)
          ELSE Outcome("failed", << cv2_frame_index(frame_number) >>, FALSE)

ProcessImage ==
  /\ epc = "loop"
  /\ image_pos <= Len(images_to_process)
  /\ \E imwrite_raises \in BOOLEAN :
       LET image_info == images_to_process[image_pos]
           image_id_of_entry == image_info.id
           did == LoopBody(image_info, imwrite_raises)
           found == /\ test_mode /\ did.tally = "extracted"
                    /\ image_has_annotations(full_coco_data, image_id_of_entry)
       IN /\ extracted_count' =
               extracted_count + (IF did.tally = "extracted" THEN 1 ELSE 0)
          /\ failed_count' = failed_count + (IF did.tally = "failed" THEN 1 ELSE 0)
          /\ excluded_by_rule_count' =
               excluded_by_rule_count + (IF did.tally = "excluded" THEN 1 ELSE 0)
          /\ frame_reads' =
               frame_reads \o [i \in 1..Len(did.read) |->
                                 [file_name |-> image_info.file_name,
                                  index |-> did.read[i]]]
          /\ output_files' =
               IF did.wrote THEN output_files \cup { image_info.file_name }
               ELSE output_files
          /\ log' = Append(log, [id |-> image_id_of_entry, tally |-> did.tally])
          /\ processed_image_id_for_test' =
               IF found THEN << image_id_of_entry >> ELSE << >>
          /\ IF found THEN epc' = "returned" /\ UNCHANGED image_pos
             ELSE epc' = "loop" /\ image_pos' = image_pos + 1
  /\ UNCHANGED << test_mode, frames_to_exclude, full_coco_data, video,
                  images_to_process >>
  /\ UNCHANGED << l3d_vars, multical_vars, skeleton_vars, prepare_vars >>

ReturnCounts ==
  /\ epc = "loop"
  /\ image_pos > Len(images_to_process)
  /\ epc' = "returned"
  /\ UNCHANGED << test_mode, frames_to_exclude, full_coco_data, video,
                  output_files, images_to_process, image_pos, extracted_count,
                  failed_count, excluded_by_rule_count,
                  processed_image_id_for_test, frame_reads, log >>
  /\ UNCHANGED << l3d_vars, multical_vars, skeleton_vars, prepare_vars >>

ExtractNext ==
  \/ StartLoop
  \/ ProcessImage
  \/ ReturnCounts

SpecExtract == ExtractInit /\ [][ExtractNext]_vars

\* ================================================================== properties
\* Vocabulary of the properties, stated on the loaded tensors and on the
\* emitted records rather than through the decoding operators above.

\* The body of the animal loop has decoded the instance
\* (frame_s_idx, cam_idx, animal_inst_idx) and has just left it.
Decoded == pc \in {"skip_unlabeled", "appended"}

LastAnnotation == annotations[Len(annotations)]

\* The [x, y, v] list the body produced: the emitted one when there is one.
DecodedKeypoints ==
  IF pc = "appended" THEN LastAnnotation.keypoints ELSE coco_keypoints_flat

KpX(k, i) == k[3 * i + 1]
KpY(k, i) == k[3 * i + 2]
KpV(k, i) == k[3 * i + 3]

\* Canonical joints that have a source marker in the instance slice.
SourceJoints ==
  { i \in 0..(num_base_keypoints - 1) : i < keypoints_per_animal }

GlobalMarker(i) == animal_inst_idx * keypoints_per_animal + i
RawX(i) == all_cam_points_2d[<<GlobalMarker(i), cam_idx, frame_s_idx>>][1]
RawY(i) == all_cam_points_2d[<<GlobalMarker(i), cam_idx, frame_s_idx>>][2]
RawStatus(i) == status[<<GlobalMarker(i), cam_idx, frame_s_idx>>]
RawIsNaN(i) == RawX(i).nan \/ RawY(i).nan

CamWidth == image_size_l3d[cam_idx][2]
CamHeight == image_size_l3d[cam_idx][1]

\* n is h/2 rounded to the nearest integer, ties to the even one.
IsRounded(h, n) ==
  \/ 2 * n = h
  \/ /\ h % 2 = 1
     /\ (2 * n = h + 1 \/ 2 * n = h - 1)
     /\ n % 2 = 0
RoundHalfEven(h) ==
  CHOOSE n \in ((h \div 2) - 1)..((h \div 2) + 1) : IsRounded(h, n)
RoundedX(i) == RoundHalfEven(RawX(i).half)
RoundedY(i) == RoundHalfEven(RawY(i).half)
RoundedOutside(i) ==
  RoundedX(i) < 0 \/ RoundedY(i) < 0 \/ RoundedX(i) >= CamWidth \/ RoundedY(i) >= CamHeight

\* C1: a decoded joint with non-NaN coordinates whose rounded position lies
\* outside the image has visibility 0, whatever its status is.
C1_OutOfImageNeverVisible ==
  Decoded =>
    \A i \in SourceJoints :
      (~RawIsNaN(i) /\ RoundedOutside(i)) => KpV(DecodedKeypoints, i) = 0

\* An emitted annotation holding an out-of-image LABELED joint and an
\* out-of-image INVISIBLE joint, both with v = 0.
C1_Witness ==
  /\ pc = "appended"
  /\ \E i, j \in SourceJoints :
       /\ ~RawIsNaN(i) /\ RoundedOutside(i) /\ RawStatus(i) = L3D_STATUS_LABELED
       /\ KpV(DecodedKeypoints, i) = 0
       /\ ~RawIsNaN(j) /\ RoundedOutside(j) /\ RawStatus(j) = L3D_STATUS_INVISIBLE
       /\ KpV(DecodedKeypoints, j) = 0

\* C2: a decoded joint with non-NaN coordinates whose rounded position lies
\* inside the image has v = 1 for INVISIBLE, v = 2 for INITIALIZED or LABELED
\* and v = 0 for UNLABELED.
C2_InImageVisibilityByStatus ==
  Decoded =>
    \A i \in SourceJoints :
      (~RawIsNaN(i) /\ ~RoundedOutside(i)) =>
        KpV(DecodedKeypoints, i) =
          (CASE RawStatus(i) = 3 -> 1
             [] RawStatus(i) = 1 -> 2
             [] RawStatus(i) = 2 -> 2
             [] RawStatus(i) = 0 -> 0)

\* One instance with an in-image INVISIBLE joint (v = 1), an in-image
\* INITIALIZED joint (v = 2) and an in-image UNLABELED joint (v = 0).
C2_Witness ==
  /\ pc = "appended"
  /\ \E i, j, k \in SourceJoints :
       /\ ~RawIsNaN(i) /\ ~RoundedOutside(i) /\ RawStatus(i) = 3
       /\ KpV(DecodedKeypoints, i) = 1
       /\ ~RawIsNaN(j) /\ ~RoundedOutside(j) /\ RawStatus(j) = 1
       /\ KpV(DecodedKeypoints, j) = 2
       /\ ~RawIsNaN(k) /\ ~RoundedOutside(k) /\ RawStatus(k) = 0
       /\ KpV(DecodedKeypoints, k) = 0

\* Bounding box spanned by the joints P of the keypoint list k.
SetMin(S) == CHOOSE v \in S : \A u \in S : v <= u
SetMax(S) == CHOOSE v \in S : \A u \in S : v >= u
BoxOver(k, P) ==
  IF P = {} THEN << 0, 0, 0, 0 >>
  ELSE LET xs == { KpX(k, i) : i \in P }
           ys == { KpY(k, i) : i \in P }
       IN << SetMin(xs), SetMin(ys), SetMax(xs) - SetMin(xs), SetMax(ys) - SetMin(ys) >>

JointsOf(k) == 0..((Len(k) \div 3) - 1)

\* C3: a joint with a NaN coordinate is emitted as (0,0,0) whatever its
\* status is, and is neither counted in num_keypoints nor part of the box.
C3_NaNJointIsZero ==
  Decoded =>
    LET k == DecodedKeypoints
        real == { i \in SourceJoints : ~RawIsNaN(i) }
    IN /\ \A i \in SourceJoints :
            RawIsNaN(i) => (KpX(k, i) = 0 /\ KpY(k, i) = 0 /\ KpV(k, i) = 0)
       /\ num_labeled_kps_for_instance =
            Cardinality({ i \in real : KpV(k, i) > 0 })
       /\ pc = "appended" =>
            /\ LastAnnotation.num_keypoints = Cardinality({ i \in real : KpV(k, i) > 0 })
            /\ LastAnnotation.bbox = BoxOver(k, { i \in real : KpV(k, i) = 2 })

\* An emitted annotation with a joint whose x is NaN and a joint whose y is
\* NaN, of statuses INVISIBLE and INITIALIZED.
C3_Witness ==
  /\ pc = "appended"
  /\ \E i, j \in SourceJoints :
       /\ RawX(i).nan /\ ~RawY(i).nan /\ RawStatus(i) = L3D_STATUS_INVISIBLE
       /\ ~RawX(j).nan /\ RawY(j).nan /\ RawStatus(j) = L3D_STATUS_INITIALIZED
       /\ KpV(DecodedKeypoints, i) = 0 /\ KpV(DecodedKeypoints, j) = 0

\* C4: every emitted keypoint list has 3 * canonical_k values; canonical
\* joints without a source marker are (0,0,0); source joints beyond the
\* canonical ones influence neither num_keypoints nor the box; joint i of
\* animal a is read from global marker a * keypoints_per_animal + i.
C4_KeypointListLayout ==
  /\ \A n \in 1..Len(annotations) :
       Len(annotations[n].keypoints) = 3 * num_base_keypoints
  /\ Decoded =>
       LET k == DecodedKeypoints IN
       /\ Len(k) = 3 * num_base_keypoints
       /\ \A i \in 0..(num_base_keypoints - 1) :
            i >= keypoints_per_animal =>
              (KpX(k, i) = 0 /\ KpY(k, i) = 0 /\ KpV(k, i) = 0)
       /\ \A i \in SourceJoints :
            ~RawIsNaN(i) => (KpX(k, i) = RoundedX(i) /\ KpY(k, i) = RoundedY(i))
       /\ pc = "appended" =>
            /\ LastAnnotation.num_keypoints =
                 Cardinality({ i \in SourceJoints : KpV(k, i) > 0 })
            /\ LastAnnotation.bbox = BoxOver(k, { i \in SourceJoints : KpV(k, i) = 2 })

\* An emitted annotation of an instance that has more source joints than
\* the base skeleton, the first dropped one being labeled and in the image.
C4_Witness ==
  /\ pc = "appended"
  /\ keypoints_per_animal > num_base_keypoints
  /\ LET d == num_base_keypoints IN
       /\ ~RawIsNaN(d) /\ ~RoundedOutside(d) /\ RawStatus(d) = L3D_STATUS_LABELED
  /\ LastAnnotation.num_keypoints = 1

\* C5: num_keypoints of an annotation is the number of triplets of its own
\* keypoints list with v > 0.
C5_NumKeypointsCountsLabeled ==
  \A n \in 1..Len(annotations) :
    LET k == annotations[n].keypoints IN
      annotations[n].num_keypoints = Cardinality({ i \in JointsOf(k) : KpV(k, i) > 0 })

\* An annotation with a v = 2, a v = 1 and a v = 0 triplet, num_keypoints 2.
C5_Witness ==
  \E n \in 1..Len(annotations) :
    LET k == annotations[n].keypoints IN
      /\ annotations[n].num_keypoints = 2
      /\ \E i, j, m \in JointsOf(k) :
           KpV(k, i) = 2 /\ KpV(k, j) = 1 /\ KpV(k, m) = 0

\* C6: the body of the animal loop appends exactly one annotation when the
\* decoded instance has a point with v > 0 and none otherwise; no other step
\* appends one.
C6_AnnotationIffLabeled ==
  [][ /\ (pc = "animal" /\ pc' \in {"skip_unlabeled", "appended"}) =>
           IF \E i \in JointsOf(coco_keypoints_flat') : KpV(coco_keypoints_flat', i) > 0
           THEN /\ Len(annotations') = Len(annotations) + 1
                /\ SubSeq(annotations', 1, Len(annotations)) = annotations
                /\ annotations'[Len(annotations')].keypoints = coco_keypoints_flat'
           ELSE annotations' = annotations
      /\ ~(pc = "animal" /\ pc' \in {"skip_unlabeled", "appended"}) =>
           annotations' = annotations
    ]_vars

\* An annotation emitted for an instance whose labeled points all have v = 1.
C6_Witness ==
  /\ pc = "appended"
  /\ \A i \in JointsOf(coco_keypoints_flat) : KpV(coco_keypoints_flat, i) # 2
  /\ \E i \in JointsOf(coco_keypoints_flat) : KpV(coco_keypoints_flat, i) = 1
  /\ LastAnnotation.keypoints = coco_keypoints_flat

\* C7: the box of an annotation is [min_x, min_y, max_x-min_x, max_y-min_y]
\* over exactly its v = 2 points, and [0,0,0,0] when it has none.
C7_BoxFromVisiblePoints ==
  \A n \in 1..Len(annotations) :
    LET k == annotations[n].keypoints IN
      annotations[n].bbox = BoxOver(k, { i \in JointsOf(k) : KpV(k, i) = 2 })

\* An annotation with two v = 2 points apart in x and y and a v = 1 point
\* below their box.
C7_Witness ==
  \E n \in 1..Len(annotations) :
    LET k == annotations[n].keypoints
        b == annotations[n].bbox
    IN \E i, j, m \in JointsOf(k) :
         /\ KpV(k, i) = 2 /\ KpV(k, j) = 2 /\ KpV(k, m) = 1
         /\ KpX(k, i) # KpX(k, j) /\ KpY(k, i) # KpY(k, j)
         /\ KpY(k, m) > b[2] + b[4]

ImageOf(a) == images[a.image_id]

\* C8: the box [x,y,w,h] of an annotation satisfies 0 <= x <= x+w <= image_w
\* and 0 <= y <= y+h <= image_h with w, h >= 0, and area = w * h.
C8_BoxInsideImage ==
  \A n \in 1..Len(annotations) :
    LET b == annotations[n].bbox
        img == ImageOf(annotations[n])
    IN /\ 0 <= b[1] /\ b[1] <= b[1] + b[3] /\ b[1] + b[3] <= img.width - 1 + 1
       /\ 0 <= b[2] /\ b[2] <= b[2] + b[4] /\ b[2] + b[4] <= img.height - 1 + 1
       /\ b[3] >= 0 /\ b[4] >= 0
       /\ annotations[n].area = b[3] * b[4]

\* An annotation with a box of positive width, height and area.
C8_Witness ==
  \E n \in 1..Len(annotations) :
    /\ annotations[n].bbox[3] > 0 /\ annotations[n].bbox[4] > 0
    /\ annotations[n].area = annotations[n].bbox[3] * annotations[n].bbox[4]
    /\ annotations[n].area > 0

\* The scenario: one camera, one animal, a 3-joint skeleton, one frame, a
\* 100x100 image; joint 0 at (10,10) LABELED, joint 1 at (-5,20) LABELED,
\* joint 2 NaN.
Scenario ==
  /\ shape = << 3, 1, 1 >>
  /\ n_animals_in_session = 1
  /\ num_base_keypoints = 3
  /\ image_size_l3d[0] = << 100, 100 >>
  /\ all_cam_points_2d[<<0, 0, 0>>] = << Float(20), Float(20) >>
  /\ status[<<0, 0, 0>>] = L3D_STATUS_LABELED
  /\ all_cam_points_2d[<<1, 0, 0>>] = << Float(-10), Float(40) >>
  /\ status[<<1, 0, 0>>] = L3D_STATUS_LABELED
  /\ (all_cam_points_2d[<<2, 0, 0>>][1].nan \/ all_cam_points_2d[<<2, 0, 0>>][2].nan)

ScenarioResult(kps) ==
  /\ Len(annotations) = 1
  /\ annotations[1].num_keypoints = 1
  /\ annotations[1].bbox = << 10, 10, 0, 0 >>
  /\ annotations[1].area = 0
  /\ annotations[1].keypoints = kps

\* C9 as stated: the scenario yields keypoints [10,10,2,0,0,0,0,0,0].
C9_ScenarioAsStated ==
  (Scenario /\ pc = "done") => ScenarioResult(<< 10, 10, 2, 0, 0, 0, 0, 0, 0 >>)

\* C9 amended: the scenario yields exactly one annotation with
\* num_keypoints 1, bbox [10,10,0,0], area 0 and keypoints
\* [10,10,2,-5,20,0,0,0,0]: the out-of-image joint keeps its rounded
\* coordinates, only its visibility is 0.
C9_ScenarioAmended ==
  (Scenario /\ pc = "done") => ScenarioResult(<< 10, 10, 2, -5, 20, 0, 0, 0, 0 >>)

\* The scenario has run to the end and has emitted its annotation.
C9_Witness ==
  Scenario /\ pc = "done" /\ saved /\ Len(annotations) = 1

\* C10: image ids count the (frame, camera) pairs, frames outer and cameras
\* inner: the k-th image has id k and belongs to frame (k-1) div C and
\* camera (k-1) mod C, and a finished run holds F * C images.
C10_ImageIdsInTraversalOrder ==
  /\ \A n \in 1..Len(images) :
       LET f == (n - 1) \div num_cameras
           c == (n - 1) % num_cameras
       IN /\ images[n].id = f * num_cameras + c + 1
          /\ images[n].id = n
          /\ images[n].file_name = << c + 1, frames_to_label[f] >>
          /\ images[n].width = image_size_l3d[c][2]
          /\ images[n].height = image_size_l3d[c][1]
  /\ pc = "done" => Len(images) = num_session_frames * num_cameras

\* A finished run over two frames and two cameras without any annotation.
C10_Witness ==
  /\ pc = "done"
  /\ num_session_frames = 2 /\ num_cameras = 2
  /\ Len(images) = 4 /\ annotations = <<>>
  /\ images[2].file_name = << 2, frames_to_label[0] >>
  /\ images[3].file_name = << 1, frames_to_label[1] >>

\* Place of the traversal: frame, camera, animal; -1 before the animal loop
\* of the (frame, camera) pair has started.
Pos ==
  << frame_s_idx, cam_idx,
     IF pc \in {"layout", "image"} THEN -1 ELSE animal_inst_idx >>
LexLess(p, q) ==
  \/ p[1] < q[1]
  \/ p[1] = q[1] /\ p[2] < q[2]
  \/ p[1] = q[1] /\ p[2] = q[2] /\ p[3] < q[3]

\* C11: the annotation id grows by one with every emitted annotation and
\* with nothing else: the ids are 1..N without gap or repeat, and they grow
\* along the traversal (frame, then camera, then animal), which never goes
\* back and moves on between two emissions.
C11_AnnotationIdsDense ==
  /\ [](/\ annotation_id_counter = Len(annotations)
        /\ \A n \in 1..Len(annotations) : annotations[n].id = n)
  /\ [][ /\ annotations' # annotations =>
              /\ pc = "animal" /\ pc' = "appended" /\ Pos' = Pos
              /\ Len(annotations') = Len(annotations) + 1
              /\ annotations'[Len(annotations')].id = Len(annotations) + 1
         /\ annotations' = annotations =>
              annotation_id_counter' = annotation_id_counter
         /\ Pos' # Pos => LexLess(Pos, Pos')
         /\ (pc = "appended" /\ pc' # "save") => LexLess(Pos, Pos')
       ]_vars

\* The second instance of a run is emitted with id 1: the first one was
\* skipped and took no id.
C11_Witness ==
  /\ pc = "appended"
  /\ n_animals_in_session > 0
  /\ (current_image_id - 1) * n_animals_in_session + animal_inst_idx + 1 = 2
  /\ Len(annotations) = 1
  /\ annotations[1].id = 1
  /\ annotation_id_counter = 1

\* a * k = m for some k
Divides(a, m) == \E k \in 0..m : k * a = m

\* C12: once the layout is computed the run has raised exactly when the
\* marker count is not a multiple of the animal count, and a run that raised
\* has built no image record, no annotation record and has written nothing.
C12_UnevenMarkersRaise ==
  /\ pc # "layout" =>
       (pc = "raised" <=> ~Divides(n_animals_in_session, num_total_markers))
  /\ ~Divides(n_animals_in_session, num_total_markers) =>
       /\ images = <<>> /\ annotations = <<>> /\ ~saved
       /\ image_id_counter = 0 /\ annotation_id_counter = 0
       /\ pc \in {"layout", "raised"}

\* Three markers and two animals: the run has raised.
C12_Witness ==
  /\ pc = "raised"
  /\ num_total_markers = 3 /\ n_animals_in_session = 2
  /\ images = <<>> /\ annotations = <<>> /\ ~saved

\* C13 as stated: on every run that goes on to the traversal,
\* keypoints_per_animal * animal count = total markers.
C13_LayoutProduct ==
  pc \notin {"layout", "raised"} =>
    keypoints_per_animal * n_animals_in_session = num_total_markers

\* A run without markers, with animals and a base skeleton, in its traversal:
\* keypoints_per_animal is the skeleton size and every instance is skipped.
C13_Witness ==
  /\ pc = "skip_marker_end"
  /\ num_total_markers = 0 /\ n_animals_in_session > 0
  /\ keypoints_per_animal = num_base_keypoints /\ keypoints_per_animal > 0
  /\ Len(images) > 0

\* ------------------------------------------------------------------ helper calls
\* A call of get_extrinsics or of get_extrinsics_json has come back.
PoseReturned ==
  call.fn \in {"get_extrinsics", "get_extrinsics_json"} /\ returned # << >>
Result == returned[1]

\* The entries the table of the call holds under a key, and the keys of the
\* call: the camera's own name and "{camera}_to_{reference}".
EntriesUnder(key) ==
  { call.pose_data[i] : i \in { j \in 1..Len(call.pose_data) :
                                  call.pose_data[j].key = key } }
DirectEntries == EntriesUnder(call.cam_name)
RelativeEntries == EntriesUnder(call.cam_name \o << "_to_" >> \o call.ref_cam)
NonReference == call.cam_name # call.ref_cam
ResultIs(e) == Result.raised = "none" /\ Result.R = e.R /\ Result.T = e.T

\* The direct entry of the camera is looked at: always by get_extrinsics, by
\* get_extrinsics_json for a name without "_to_".
DirectEntryRead ==
  /\ DirectEntries # {}
  /\ call.fn = "get_extrinsics_json" =>
       \A i \in 1..Len(call.cam_name) : call.cam_name[i] # "_to_"

C15_RelativePreferred ==
  (PoseReturned /\ NonReference /\ DirectEntries # {} /\ RelativeEntries # {}) =>
    \E e \in RelativeEntries : ResultIs(e)

\* Both entries are in the table with different poses and the direct one
\* has been returned, with the warning.
C15_Witness ==
  /\ PoseReturned /\ NonReference
  /\ \E d \in DirectEntries : \E r \in RelativeEntries :
       /\ d.R # r.R /\ d.T # r.T
       /\ ResultIs(d) /\ ~ResultIs(r)
  /\ Result.warning = "direct pose"

\* Identity rotation and zero translation within 1e-6, entry by entry.
WithinPoseTolerance(e) ==
  /\ \A i, j \in 1..3 :
       Abs(e.R[i][j] - (IF i = j THEN One ELSE 0)) <= POSE_TOLERANCE
  /\ \A i \in 1..3 : Abs(e.T[i]) <= POSE_TOLERANCE

\* C16 as stated: for the reference camera both functions return the stored
\* (R,T) unchanged when its name has an entry, with a warning when that
\* entry is not identity/zero within 1e-6, and identity/zero when it has
\* none; they never raise and look at no key but the reference name.
C16_ReferencePose ==
  (PoseReturned /\ ~NonReference) =>
    /\ Result.raised = "none"
    /\ Result.looked \subseteq { call.ref_cam }
    /\ IF DirectEntries # {}
       THEN \E e \in DirectEntries :
              /\ ResultIs(e)
              /\ ~WithinPoseTolerance(e) => Result.warning = "not identity/zero"
       ELSE /\ Result.R = << << One, 0, 0 >>, << 0, One, 0 >>, << 0, 0, One >> >>
            /\ Result.T = << 0, 0, 0 >>

\* The stored reference pose has a diagonal entry 5e-6 off 1 and no other
\* deviation: it is returned unchanged and without the warning.
C16_Witness ==
  /\ PoseReturned /\ ~NonReference
  /\ \E e \in DirectEntries :
       /\ e.R[1][1] = One + 50
       /\ ~WithinPoseTolerance(e)
       /\ ResultIs(e)
  /\ Result.warning = "none"

\* C20: for an accepted coefficient list of length n the radial list is the
\* input at indices 0, 1, 4 and the tangential list the input at indices
\* 2, 3, with 0 wherever the index is not below n.
C20_DistortionSplit ==
  (/\ call.fn = "extract_distortion" /\ returned # << >>
   /\ call.dist_coeffs.type \in {"ndarray", "list_of_lists"}) =>
    LET c == call.dist_coeffs.values
        At(i) == IF i < Len(c) THEN c[i + 1] ELSE 0
    IN /\ Result.raised = "none"
       /\ Result.RadialDistortion = << At(0), At(1), At(4) >>
       /\ Result.TangentialDistortion = << At(2), At(3) >>

\* [k1, k2, p1] with three non-zero values gives radial [k1, k2, 0] and
\* tangential [p1, 0].
C20_Witness ==
  /\ call.fn = "extract_distortion" /\ returned # << >>
  /\ call.dist_coeffs = DistCoeffs("list_of_lists", << 4, -9, 4 >>)
  /\ Result.RadialDistortion = << 4, -9, 0 >>
  /\ Result.TangentialDistortion = << 4, 0 >>

\* ------------------------------------------------------------------ C21, C22
\* The call of extract_distortion that has returned, and what a call with
\* the same coefficient values in another form gives.
DistortionReturned == call.fn = "extract_distortion" /\ returned # << >>
Accepted == DistortionReturned /\ Result.raised = "none"
SamePair(a, b) ==
  /\ a.RadialDistortion = b.RadialDistortion
  /\ a.TangentialDistortion = b.TangentialDistortion

\* C21 as stated: a flat sequence of numbers and a one-row nested sequence
\* are both accepted, and for the same values give the same (radial,
\* tangential) pair.
C21_FlatAndNestedAgree ==
  DistortionReturned =>
    /\ Result.raised = "none"
    /\ \A form \in DistTypes :
         LET other == extract_distortion(DistCoeffs(form, call.dist_coeffs.values))
         IN other.raised = "none" /\ SamePair(other, Result)

\* A flat list of five numbers is rejected with ValueError.
C21_Witness ==
  /\ DistortionReturned
  /\ call.dist_coeffs = DistCoeffs("list_of_numbers", << 4, -9, 0, 0, 4 >>)
  /\ Result.raised = "ValueError"

\* The source indices 0..4 that an accepted input is too short to hold.
Substituted == { i \in 0..4 : i >= Len(call.dist_coeffs.values) }

\* C22 as stated: whenever 0.0 is substituted for one of the indices 0..4,
\* the call prints a warning.
C22_NoSilentPadding ==
  (Accepted /\ Substituted # {}) => Result.warnings # {}

\* C22: with fewer than 4 coefficients the call prints a warning (both
\* warnings with fewer than 2); with exactly 4 coefficients index 4 is
\* substituted with 0.0 and nothing is printed; with 5 or more nothing is
\* substituted and nothing is printed.
C22_PaddingWarnedBelowFour ==
  Accepted =>
    LET n == Len(call.dist_coeffs.values)
    IN /\ n < 2 <=> "radial" \in Result.warnings
       /\ n < 4 <=> "tangential" \in Result.warnings
       /\ Result.warnings \subseteq {"radial", "tangential"}
       /\ n = 4 => (Substituted = {4} /\ Result.RadialDistortion[3] = 0)

\* [k1, k2, p1, p2]: k3 is 0.0 and no warning is printed.
C22_Witness ==
  /\ Accepted
  /\ call.dist_coeffs = DistCoeffs("list_of_lists", << 4, -9, 4, -9 >>)
  /\ Result.RadialDistortion = << 4, -9, 0 >>
  /\ Result.warnings = {}

\* ------------------------------------------------------------------ main
\* The keys of camera_poses that may serve as the reference: no "_to_" part
\* and a pose that is identity/zero within 1e-6.
PoseTable ==
  IF json_data.has_camera_poses THEN json_data.camera_poses ELSE << >>
Qualifying ==
  { i \in 1..Len(PoseTable) :
      /\ \A j \in 1..Len(PoseTable[i].key) : PoseTable[i].key[j] # "_to_"
      /\ WithinPoseTolerance(PoseTable[i]) }
NothingProcessed ==
  /\ DOMAIN mat_files = {} /\ processed_count = 0 /\ ~output_dir_exists
  /\ mpc = "failed"

\* C17 as stated: the detected reference is the first key of camera_poses
\* without "_to_" whose pose is identity/zero within 1e-6; without such a
\* key the run ends with no camera processed and nothing written.
C17_FirstReferenceWithinTolerance ==
  (~use_pkl /\ mpc \notin {"idle", "load"}) =>
    IF Qualifying = {}
    THEN detected_ref_cam = NoCamera /\ NothingProcessed
    ELSE \E i \in Qualifying :
           /\ \A j \in Qualifying : i <= j
           /\ detected_ref_cam = PoseTable[i].key

\* cam1, whose R has a diagonal entry 5e-6 off 1, comes before cam2, whose
\* pose is exactly identity/zero, and is the detected reference.
C17_Witness ==
  /\ ~use_pkl /\ mpc = "loaded"
  /\ Len(PoseTable) = 2
  /\ PoseTable[1].key = << "cam1" >> /\ PoseTable[1].R[1][1] = One + 50
  /\ PoseTable[2].key = << "cam2" >> /\ Qualifying = { 2 }
  /\ detected_ref_cam = << "cam1" >>

\* The camera whose file has just been saved, and that file.
JustSaved == mpc = "saved_mat"
SavedCamera == target_cameras[cam_pos]
SavedMat == mat_files[SavedCamera]

Identity3 == << << 1, 0, 0 >>, << 0, 1, 0 >>, << 0, 0, 1 >> >>
Product3(a, b) ==
  [i \in 1..3 |-> [j \in 1..3 |->
     a[i][1] * b[1][j] + a[i][2] * b[2][j] + a[i][3] * b[3][j]]]
\* A rotation with entries -1, 0, 1, in units of 1.0
WholeEntries(m) == \A i, j \in 1..3 : m[i][j] % One = 0
InOnes(m) == [i \in 1..3 |-> [j \in 1..3 |-> m[i][j] \div One]]
Orthonormal(m) ==
  /\ WholeEntries(m)
  /\ \A i, j \in 1..3 :
       InOnes(m)[i][1] * InOnes(m)[j][1] + InOnes(m)[i][2] * InOnes(m)[j][2]
         + InOnes(m)[i][3] * InOnes(m)[j][3] = (IF i = j THEN 1 ELSE 0)

\* The poses a camera can resolve to: for PKL input its pose in the
\* workspace, for JSON input an entry of camera_poses or identity/zero.
ResolvablePoses(cam) ==
  IF use_pkl
  THEN { workspace.poses[i] : i \in { j \in 1..Len(workspace.names) :
                                        workspace.names[j] = cam } }
  ELSE { [R |-> PoseTable[i].R, T |-> PoseTable[i].T] : i \in 1..Len(PoseTable) }
       \cup { [R |-> [i \in 1..3 |-> [j \in 1..3 |-> IF i = j THEN One ELSE 0]],
               T |-> << 0, 0, 0 >>] }

\* C18: the r of a saved file is the transpose of the resolved R, so that
\* r times R is the identity for an orthonormal R, and its t is the single
\* row of the resolved T entries times 1000, in their order; the resolved
\* pose is the camera's workspace pose (PKL) or a pose of the table (JSON).
C18_RotationTransposedTranslationMm ==
  /\ JustSaved =>
       /\ \A i, j \in 1..3 : SavedMat.r[i][j] = R_w_cam[j][i]
       /\ Len(SavedMat.t) = 1
       /\ SavedMat.t[1] =
            << 1000 * T_w_cam[1], 1000 * T_w_cam[2], 1000 * T_w_cam[3] >>
       /\ Orthonormal(R_w_cam) =>
            Product3(InOnes(SavedMat.r), InOnes(R_w_cam)) = Identity3
       /\ [R |-> R_w_cam, T |-> T_w_cam] \in ResolvablePoses(SavedCamera)
  /\ \A cam \in DOMAIN mat_files :
       \E p \in ResolvablePoses(cam) :
         /\ \A i, j \in 1..3 : mat_files[cam].r[i][j] = p.R[j][i]
         /\ mat_files[cam].t = << << 1000 * p.T[1], 1000 * p.T[2], 1000 * p.T[3] >> >>

\* Files saved from PKL input and from JSON input for a camera whose pose is
\* the quarter turn with T = (0.1, -0.15, 0.05) m: r is the turn back and t
\* is (100, -150, 50) mm.
C18_Witness ==
  /\ JustSaved
  /\ R_w_cam = << << 0, -One, 0 >>, << One, 0, 0 >>, << 0, 0, One >> >>
  /\ T_w_cam = << 1000000, -1500000, 500000 >>
  /\ SavedMat.r = << << 0, One, 0 >>, << -One, 0, 0 >>, << 0, 0, One >> >>
  /\ SavedMat.t = << << 1000000000, -1500000000, 500000000 >> >>
  /\ ~use_pkl /\ SavedCamera # detected_ref_cam

\* K of the form [[fx,0,cx],[0,fy,cy],[0,0,1]]
StandardK(K) ==
  /\ K[1][2] = 0 /\ K[2][1] = 0
  /\ K[3] = << 0, 0, 1 >>

\* C19: for an original K = [[fx,0,cx],[0,fy,cy],[0,0,1]] the K of the
\* saved file is [[fx,0,0],[0,fy,0],[cx,cy,1]], the original being the K of
\* the camera in the input.
C19_IntrinsicsRearranged ==
  JustSaved =>
    /\ K_original = all_intrinsics[SavedCamera].K
    /\ StandardK(K_original) =>
         SavedMat.K = << << K_original[1][1], 0, 0 >>,
                         << 0, K_original[2][2], 0 >>,
                         << K_original[1][3], K_original[2][3], 1 >> >>

\* The file saved for K = [[800,0,320],[0,810,240],[0,0,1]].
C19_Witness ==
  /\ JustSaved
  /\ K_original = << << 800, 0, 320 >>, << 0, 810, 240 >>, << 0, 0, 1 >> >>
  /\ SavedMat.K = << << 800, 0, 0 >>, << 0, 810, 0 >>, << 320, 240, 1 >> >>

\* The body of the camera loop has run for the camera at place i of the
\* sorted target cameras.
BodyDone(i) ==
  \/ i < cam_pos
  \/ i = cam_pos /\ mpc \in {"saved_mat", "skipped", "finished"}

\* JSON input: the camera at place i is not the reference, its distortion
\* coefficients are accepted, its own name is not read as a key of
\* camera_poses and its relative key is not in camera_poses, so that the
\* lookup of the relative key raises KeyError.
MissingRelativeKey(i) ==
  LET cam == target_cameras[i]
      Keys == { PoseTable[k].key : k \in 1..Len(PoseTable) }
  IN /\ ~use_pkl
     /\ cam # detected_ref_cam
     /\ all_intrinsics[cam].dist.type \in {"ndarray", "list_of_lists"}
     /\ cam \notin Keys
     /\ cam \o << "_to_" >> \o detected_ref_cam \notin Keys

\* C23 as stated: once the loop body has met a missing relative key, the
\* loop never reaches a later camera and no file of a later camera exists.
C23_MissingKeyStopsRun ==
  (~use_pkl /\ mpc \in {"camera", "saved_mat", "skipped", "finished"}) =>
    \A i \in 1..Len(target_cameras) :
      (BodyDone(i) /\ MissingRelativeKey(i)) =>
        /\ cam_pos = i
        /\ \A j \in (i + 1)..Len(target_cameras) :
             target_cameras[j] \notin DOMAIN mat_files

\* cam1 has no "cam1_to_cam2" entry and is skipped; cam2, the reference
\* and later in the sorted order, is processed and its file is saved.
C23_Witness ==
  /\ ~use_pkl /\ mpc = "saved_mat"
  /\ target_cameras = << << "cam1" >>, << "cam2" >> >>
  /\ detected_ref_cam = << "cam2" >>
  /\ MissingRelativeKey(1)
  /\ cam_pos = 2
  /\ DOMAIN mat_files = { << "cam2" >> }
  /\ processed_count = 1

\* ------------------------------------------------------------------ C24
\* C24 as stated, for l3d_to_coco: with an empty joint-name field of the
\* base skeleton no image or annotation record is built and no file is
\* written.
C24_EmptyJointNamesAbort ==
  (pc # "idle" /\ num_base_keypoints = 0) =>
    /\ images = << >> /\ annotations = << >>
    /\ ~saved

\* The base skeleton has no joint names, an image record was built for
\* every view and the COCO file was written.
C24_Witness ==
  /\ num_base_keypoints = 0
  /\ num_total_markers > 0 /\ n_animals_in_session > 0
  /\ Len(images) = num_cameras * num_session_frames /\ Len(images) > 0
  /\ saved

\* ------------------------------------------------------------------ C27
\* The annotations that refer to the image with a given id.
AnnotationsOf(id) ==
  { n \in 1..Len(annotations) : annotations[n].image_id = id }

\* C27: the image_id of every annotation is the id of an image of the
\* images list, the image_ids do not decrease along the annotation ids, no
\* image has more annotations than there are animals, and the annotation
\* just emitted refers to the image entry of the frame and camera of the
\* instance it was decoded from.
C27_AnnotationImageIds ==
  /\ \A n \in 1..Len(annotations) :
       \E i \in 1..Len(images) : images[i].id = annotations[n].image_id
  /\ \A n, m \in 1..Len(annotations) :
       n < m => annotations[n].image_id <= annotations[m].image_id
  /\ \A i \in 1..Len(images) :
       Cardinality(AnnotationsOf(images[i].id)) <= n_animals_in_session
  /\ pc = "appended" =>
       \E i \in 1..Len(images) :
         /\ images[i].id = LastAnnotation.image_id
         /\ images[i].file_name = << cam_idx + 1, frames_to_label[frame_s_idx] >>
         /\ i = frame_s_idx * num_cameras + cam_idx + 1

\* The instance of the second image is emitted as annotation 1 and refers
\* to image 2.
C27_Witness ==
  /\ pc = "appended"
  /\ Len(images) = 2 /\ Len(annotations) = 1
  /\ LastAnnotation.id = 1 /\ LastAnnotation.image_id = 2
  /\ images[2].id = 2

\* ------------------------------------------------------------------ C28
\* The markers of the slice of animal a when every animal has kpa markers.
SliceOf(a, kpa) == { m \in 0..(num_total_markers - 1) :
                       a * kpa <= m /\ m < (a + 1) * kpa }

\* C28: with markers and animals and an even division, no instance leaves
\* the loop body through one of the two slice guards; the instance is
\* decoded from the keypoints_per_animal cells of its own slice, and the
\* slices of the animals are disjoint and cover the marker axis.
C28_NoSliceSkips ==
  /\ [](( /\ pc \notin {"idle", "layout", "raised"}
          /\ num_total_markers > 0 /\ n_animals_in_session > 0 ) =>
          /\ pc \notin {"skip_marker_end", "skip_invalid_slice"}
          /\ keypoints_per_animal > 0
          /\ \A a, b \in 0..(n_animals_in_session - 1) :
               a # b => SliceOf(a, keypoints_per_animal)
                          \cap SliceOf(b, keypoints_per_animal) = {}
          /\ UNION { SliceOf(a, keypoints_per_animal) :
                       a \in 0..(n_animals_in_session - 1) }
               = 0..(num_total_markers - 1)
          /\ \A a \in 0..(n_animals_in_session - 1) :
               Cardinality(SliceOf(a, keypoints_per_animal)) = keypoints_per_animal
          /\ Decoded =>
               /\ Len(instance_kps_2d) = keypoints_per_animal
               /\ Len(instance_status_vals) = keypoints_per_animal
               /\ \A i \in 1..keypoints_per_animal :
                    LET m == animal_inst_idx * keypoints_per_animal + i - 1
                    IN /\ m \in SliceOf(animal_inst_idx, keypoints_per_animal)
                       /\ instance_kps_2d[i] = all_cam_points_2d[<< m, cam_idx, frame_s_idx >>]
                       /\ instance_status_vals[i] = status[<< m, cam_idx, frame_s_idx >>])
  /\ [][ (pc = "animal" /\ num_total_markers > 0) =>
           /\ pc' \in {"skip_unlabeled", "appended"}
           /\ animal_inst_idx' = animal_inst_idx
       ]_vars

\* The second of two animals with one marker each has been decoded from
\* marker 1.
C28_Witness ==
  /\ Decoded
  /\ num_total_markers = 2 /\ n_animals_in_session = 2
  /\ keypoints_per_animal = 1
  /\ animal_inst_idx = 1
  /\ instance_kps_2d = << all_cam_points_2d[<< 1, cam_idx, frame_s_idx >>] >>

\* ------------------------------------------------------------------ C25
\* C25: the skeleton of the category has one pair per row of the source
\* joints_idx, in the order of the rows, each index being the source index
\* minus 1, at least 0 and below the number of joint names of the category.
C25_EdgesZeroBasedInRange ==
  spc = "category" =>
    /\ Len(categories) = 1
    /\ categories[1].keypoints = joint_names
    /\ Len(categories[1].skeleton) = Len(joints_idx)
    /\ \A e \in 1..Len(joints_idx) :
         /\ DOMAIN categories[1].skeleton[e] = 1..2
         /\ \A i \in 1..2 :
              /\ categories[1].skeleton[e][i] = joints_idx[e][i] - 1
              /\ categories[1].skeleton[e][i] >= 0
              /\ categories[1].skeleton[e][i] < Len(categories[1].keypoints)

\* Three joints with the edges (1,2), (3,2): the category has (0,1), (2,1).
C25_Witness ==
  /\ spc = "category"
  /\ Len(joint_names) = 3
  /\ joints_idx = << << 1, 2 >>, << 3, 2 >> >>
  /\ categories[1].skeleton = << << 0, 1 >>, << 2, 1 >> >>

\* ------------------------------------------------------------------ C29
\* The instance ids and frame ids of the entries, the place of a value
\* among the values of its kind, and the cell of joint j (from 0) of the
\* entry e.
EntryInstanceIds ==
  { camera_json_data_map[i].instance_id : i \in DOMAIN camera_json_data_map }
EntryFrameIds ==
  { camera_json_data_map[i].frame_id : i \in DOMAIN camera_json_data_map }
RankIn(S, x) == Cardinality({ y \in S : y < x })
CellOf(e, j) ==
  << RankIn(EntryInstanceIds, e.instance_id) * skel_data + j,
     IF e.cam_name = "Cam_001" THEN 0 ELSE 1,
     RankIn(EntryFrameIds, e.frame_id) >>
SameCell(cell) ==
  /\ cam_points_data'[cell] = cam_points_data[cell]
  /\ status_data'[cell] = status_data[cell]

\* C29: once the arrays exist, every status cell is 0 or 1, and is 1 exactly
\* when both coordinates of its cell are not NaN; the marker axis has
\* (distinct instance ids) * (joint names) places.  An entry whose keypoint
\* count differs from the joint count changes no cell; a joint whose score
\* is below the threshold leaves its cell as it was; no entry changes a
\* cell of another camera, frame or instance.
C29_PoseTensors ==
  /\ [](ppc \in {"populate", "done"} =>
          /\ DOMAIN cam_points_data = DOMAIN status_data
          /\ { cell[1] : cell \in DOMAIN status_data }
               = 0..(Cardinality(EntryInstanceIds) * skel_data - 1)
          /\ \A cell \in DOMAIN status_data :
               /\ status_data[cell] \in {0, 1}
               /\ status_data[cell] = 1 <=>
                    (~IsNaN(cam_points_data[cell][1])
                       /\ ~IsNaN(cam_points_data[cell][2])))
  /\ [][ (ppc = "populate" /\ entry_pos' = entry_pos + 1) =>
           LET e == camera_json_data_map[entry_pos]
           IN /\ Len(e.keypoints) # skel_data =>
                   \A cell \in DOMAIN status_data : SameCell(cell)
              /\ \A j \in 1..Len(e.keypoint_scores) :
                   e.keypoint_scores[j] < kpt_score_threshold =>
                     (CellOf(e, j - 1) \in DOMAIN status_data =>
                        SameCell(CellOf(e, j - 1)))
              /\ \A cell \in DOMAIN status_data :
                   cell \notin { CellOf(e, j) : j \in 0..(skel_data - 1) } =>
                     SameCell(cell)
       ]_vars

\* One instance of two joints whose first score is below the threshold:
\* the file is written with marker 0 unlabeled and NaN and marker 1
\* initialized at its coordinates.
C29_Witness ==
  /\ ppc = "done" /\ mat_written
  /\ skel_data = 2
  /\ Len(camera_json_data_map) = 1
  /\ camera_json_data_map[1].keypoint_scores = << 3, 9 >>
  /\ camera_json_data_map[1].cam_name = "Cam_002"
  /\ status_data[<< 0, 1, 0 >>] = 0
  /\ cam_points_data[<< 0, 1, 0 >>] = << NaN, NaN >>
  /\ status_data[<< 1, 1, 0 >>] = 1
  /\ cam_points_data[<< 1, 1, 0 >>] = << Float(24), Float(204) >>

\* ------------------------------------------------------------------ C26, C30
\* The frame label of a matching file name (one digit after the padding),
\* the image of the i-th logged line and the frames asked for a file name.
Label(file_name) == file_name.frame_number_str[Len(file_name.frame_number_str)]
Logged(i) == images_to_process[i].file_name
ReadsOf(file_name) ==
  { r \in 1..Len(frame_reads) : frame_reads[r].file_name = file_name }
ReadsByConvention ==
  \A r \in 1..Len(frame_reads) :
    /\ Label(frame_reads[r].file_name) >= 1
    /\ frame_reads[r].index = Label(frame_reads[r].file_name) - 1
    /\ frame_reads[r].index >= 0

Tallied(tally) == { i \in 1..Len(log) : log[i].tally = tally }

\* C30: without test mode every image entry is logged once, in the order
\* of the images list, under one of the three tallies, and each counter is
\* the number of lines of its tally: at return the three counters add up
\* to the number of image entries.  An image whose frame number is in
\* frames_to_exclude is tallied as excluded, whether or not its file
\* exists, and the returned image id is None.
C30_EveryImageTalliedOnce ==
  (~test_mode /\ epc \in {"loop", "returned"}) =>
    /\ \A i \in 1..Len(log) :
         /\ log[i].id = full_coco_data.images[i].id
         /\ log[i].tally \in {"extracted", "failed", "excluded"}
         /\ (/\ Logged(i).form = "cam_frame"
             /\ << Label(Logged(i)) >> \in frames_to_exclude) =>
              log[i].tally = "excluded"
    /\ extracted_count = Cardinality(Tallied("extracted"))
    /\ failed_count = Cardinality(Tallied("failed"))
    /\ excluded_by_rule_count = Cardinality(Tallied("excluded"))
    /\ extracted_count + failed_count + excluded_by_rule_count = Len(log)
    /\ epc = "loop" => Len(log) = image_pos - 1
    /\ (epc = "returned" /\ full_coco_data.images # << >>) =>
         /\ Len(log) = Len(full_coco_data.images)
         /\ extracted_count + failed_count + excluded_by_rule_count
              = Len(full_coco_data.images)
    /\ processed_image_id_for_test = << >>

\* Two images at return: the one of the excluded frame 2, whose file
\* exists, is tallied as excluded, the other one as extracted.
C30_Witness ==
  /\ ~test_mode /\ epc = "returned"
  /\ Len(full_coco_data.images) = 2
  /\ << 2 >> \in frames_to_exclude
  /\ Logged(1).form = "cam_frame"
  /\ Label(Logged(1)) = 2 /\ Logged(1) \in output_files
  /\ log[1].tally = "excluded"
  /\ log[2].tally = "extracted"
  /\ extracted_count = 1 /\ failed_count = 0 /\ excluded_by_rule_count = 1

====
